---------------------------- MODULE Spec2Model ----------------------------
(***************************************************************************)
(* A model of the PAX raster-file library (src/pax/pax/pax.h): the         *)
(* rasterFile<E> object, its metadata map, the header writer               *)
(* (writeToBuffer / writeMeta) and the header reader (BufMan, importHeader, *)
(* import).                                                                *)
(*                                                                         *)
(* Buffers are sequences of byte values 0..255; position p of a sequence   *)
(* is offset p-1 of the C buffer.  Text constants are written as tuples of *)
(* ASCII codes, with the text in a comment beside them.                    *)
(***************************************************************************)
EXTENDS Integers, Sequences, FiniteSets, TLC

(***************************************************************************)
(* Bounds of the model.                                                    *)
(***************************************************************************)
\* how many addMetaVal / addComment calls are made on one file
MaxAdds == 3
\* how far a scan may run (every buffer of the model is shorter)
MaxRaster == 64

(***************************************************************************)
(* Program constants.                                                      *)
(***************************************************************************)
PAX_OK == 0
PAX_FAIL == -13
PAX_INVALID == -14
MIN_PAX_LENGTH == 128
\* PAX_VERSION 1.00, in hundredths
PAX_VERSION == 100
PAX_MAX_METADATA_STRING_LENGTH == 256

\* enum metaLoc
LOC_UNKNOWN == -1
LOC_AFTER_TAG == 0
LOC_AFTER_BPV == 1
LOC_AFTER_VPE == 2
LOC_AFTER_SEQ == 3
LOC_AFTER_STR1 == 4
LOC_END == 4
LOC_COUNT == 5

\* enum paxMetaDataTypes
paxComment == -2
paxInvalid == -1
paxString == 0
paxFloat == 1
paxDouble == 2
paxInt32 == 5

\* enum HEADERLINETYPE
UNKNOWN == -1
COMMENT == 0
METADATA == 1
PAX == 16
BPV == 17
VPE == 18
DIM == 19
DATALEN == 20
NOT_CHECKED == -2

\* enum paxTypes (the members the model instantiates or feeds to import)
ePAX_INVALID == -1
ePAX_UCHAR == 101
ePAX_FLOAT == 109
ePAX_META_ONLY == 199

\* characters
NUL == 0
TAB == 9
LF == 10
CR == 13
SPACE == 32
HASH == 35
COLON == 58
EQUALS == 61
ATSIGN == 64
LBRACKET == 91
RBRACKET == 93

PAX_TAG == <<80, 65, 88>>   \* "PAX"
BPV_TAG == <<66, 89, 84, 69, 83, 95, 80, 69, 82, 95, 86, 65, 76, 85, 69>>   \* "BYTES_PER_VALUE"
VPE_TAG == <<86, 65, 76, 85, 69, 83, 95, 80, 69, 82, 95, 69, 76, 69, 77, 69, 78, 84>>   \* "VALUES_PER_ELEMENT"
DIM1_TAG == <<69, 76, 69, 77, 69, 78, 84, 83, 95, 73, 78, 95, 83, 69, 81, 85, 69, 78, 84, 73, 65, 76, 95, 68, 73, 77, 69, 78, 83, 73, 79, 78>>   \* "ELEMENTS_IN_SEQUENTIAL_DIMENSION"
DIM2_TAG == <<69, 76, 69, 77, 69, 78, 84, 83, 95, 73, 78, 95, 83, 84, 82, 73, 68, 69, 68, 95, 68, 73, 77, 69, 78, 83, 73, 79, 78>>   \* "ELEMENTS_IN_STRIDED_DIMENSION"
DATALEN_TAG == <<68, 65, 84, 65, 95, 76, 69, 78, 71, 84, 72>>   \* "DATA_LENGTH"

(***************************************************************************)
(* The type registry PAX_TYPE_DATA: type code -> <<bytes per value, values *)
(* per element>>.                                                          *)
(***************************************************************************)
PAX_TYPE_DATA ==
    [t \in {-1, 16, 99, 199} |-> <<0, 0>>] @@
    [t \in {0, 5, 100, 101, 1001, 1002, 1004, 1005} |-> <<1, 1>>] @@
    [t \in {12, 13} |-> <<1, 2>>] @@
    [t \in {14, 15, 1003, 1006} |-> <<1, 3>>] @@
    [t \in {102, 103, 108} |-> <<2, 1>>] @@
    [t \in {1, 2, 6, 7} |-> <<2, 2>>] @@
    [t \in {104, 105, 109} |-> <<4, 1>>] @@
    [t \in {3, 8, 10} |-> <<4, 2>>] @@
    [t \in {200} |-> <<4, 3>>] @@
    [t \in {106, 107, 110} |-> <<8, 1>>] @@
    [t \in {4, 9, 11} |-> <<8, 2>>] @@
    [t \in {111} |-> <<16, 1>>]

isPaxType(t) == t # ePAX_INVALID /\ t \in DOMAIN PAX_TYPE_DATA

getBPV(t) == IF isPaxType(t) THEN PAX_TYPE_DATA[t][1] ELSE 0

getVPE(t) == IF isPaxType(t) THEN PAX_TYPE_DATA[t][2] ELSE 0

\* "PAX_" followed by the registry name of the type
getTypeName(t) ==
    CASE t = ePAX_UCHAR -> <<80, 65, 88, 95, 85, 67, 72, 65, 82>>          \* "PAX_UCHAR"
      [] t = ePAX_FLOAT -> <<80, 65, 88, 95, 70, 76, 79, 65, 84>>          \* "PAX_FLOAT"
      [] OTHER -> <<80, 65, 88, 95, 73, 78, 86, 65, 76, 73, 68>>           \* "PAX_INVALID"

(***************************************************************************)
(* The state.                                                              *)
(***************************************************************************)
VARIABLES
    file,       \* the rasterFile<E> the caller builds
    outBuf,     \* the buffer handed to import: writeToBuffer's output, or a caller's bytes
    origin,     \* where outBuf came from: "none", "written", "truncated", "crafted"
    dest,       \* the rasterFile<E2> import decodes into
    ret,        \* what import returned
    fault,      \* "none", or how import left defined behaviour: "overrun", "hang", "throw"
    hdr,        \* the fields of a crafted header (type -1 when outBuf is not crafted)
    outBuf2,    \* writeToBuffer's output for dest
    pc,         \* the caller's position: "build", "written", "imported", "rewritten"
    clean,      \* the written stream before the caller edited it (empty when it did not)
    garbage,    \* <<_metaIdx, stripped>> as the import of an edited stream read them
    edit,       \* the line the caller put into the stream
    acc,        \* the last raster accessor call and the reference it returned
    files,      \* the models handed to writeMultiple
    dests,      \* what importMultiple returned
    pre,        \* the last preview call: what it returned and the bytes it consumed
    status,     \* PaxStatic's status, the static every call of the library shares
    got,        \* the last indexed metadata call and what it returned
    rd,         \* the reader of an import that is inside importHeader's loop
    ck          \* the chunk loop of a preview(fileName) that has not returned

editVars == <<clean, garbage, edit>>
rasterVars == <<acc>>
multiVars == <<files, dests>>
previewVars == <<pre>>
arrayVars == <<status, got>>
loopVars == <<rd, ck>>

\* what the calls on an unedited stream leave alone
others == <<editVars, rasterVars, multiVars, previewVars, arrayVars, loopVars>>

vars == <<file, outBuf, origin, dest, ret, fault, hdr, outBuf2, pc, others>>

(***************************************************************************)
(* 32-bit arithmetic.  A 32-bit word is kept as <<high 16 bits, low 16     *)
(* bits>> so that a product that wraps can be computed.                    *)
(***************************************************************************)
Word(x) == <<(x \div 65536) % 65536, x % 65536>>

\* the low and the high 16 bits of a * b, for a, b < 2^16, computed from the
\* partial products of a with the two bytes of b
Lo16(a, b) == ((((a * (b \div 256)) % 65536) * 256) + a * (b % 256)) % 65536

Hi16(a, b) ==
    ((a * (b \div 256)) \div 256)
    + ((((a * (b \div 256)) % 256) * 256 + a * (b % 256)) \div 65536)

\* x * n modulo 2^32, for a natural number n
MulWord(x, n) ==
    LET nh == (n \div 65536) % 65536
        nl == n % 65536
    IN  <<(Hi16(x[2], nl) + Lo16(x[1], nl) + Lo16(x[2], nh)) % 65536, Lo16(x[2], nl)>>

\* the word read as an int32_t
Int32OfWord(w) == IF w[1] >= 32768 THEN (w[1] - 65536) * 65536 + w[2] ELSE w[1] * 65536 + w[2]

\* rasterFile<E>::init(sequential, strided, buf): the object after construction.
\* _numValues and the size of the buffer are products of uint32_t; data is the
\* caller's buf, << >> when it is NULL (the new buffer keeps its zeroes).
init(E, sequential, strided, data) ==
    LET numValues == Int32OfWord(MulWord(Word(sequential), strided))
        bytes == Int32OfWord(MulWord(MulWord(Word(numValues), getBPV(E)), getVPE(E)))
        zeroDim == sequential = 0 \/ strided = 0
    IN  [ E |-> E,
          dataType |-> E,
          version |-> PAX_VERSION,
          numValues |-> numValues,
          numSequential |-> IF zeroDim THEN 0 ELSE sequential,
          numStrided |-> IF zeroDim THEN 0 ELSE strided,
          buf |-> IF numValues # 0
                  THEN [i \in 1..bytes |-> IF i <= Len(data) THEN data[i] ELSE 0]
                  ELSE << >>,
          meta |-> << >>,
          metaLoc |-> LOC_END,
          metaLocCount |-> [l \in 0..(LOC_COUNT - 1) |-> 0],
          importedLength |-> 0 ]

\* the constructor calls the model makes: <<E, sequential, strided, raster bytes>>
Constructions ==
    { <<ePAX_UCHAR, 2, 1, <<65, 66>> >>,
      <<ePAX_UCHAR, 2, 1, <<SPACE, 65>> >>,
      <<ePAX_FLOAT, 1, 1, <<0, 0, 192, 63>> >> }

(***************************************************************************)
(* Metadata.  An entry of the map is struct meta: type, loc, index, name,  *)
(* the union's bytes s and the comment/string flag stripped.  A numeric    *)
(* value is kept as the little-endian bytes the union holds; only the      *)
(* bytes the store initialised are kept.  num_dims of a scalar entry is    *)
(* read uninitialised by clone(): any value but 0 makes clone copy from    *)
(* the null dims pointer and ends the process, so the entries that exist   *)
(* are the ones with num_dims = 0.                                         *)
(***************************************************************************)
RECURSIVE BytesLE(_, _)
\* the n low bytes of the two's complement of v, low byte first
BytesLE(v, n) == IF n = 0 THEN << >> ELSE <<v % 256>> \o BytesLE(v \div 256, n - 1)

\* the value of a run of little-endian bytes read as a signed 32-bit integer
Int32Of(b) ==
    LET lo == b[1] + 256 * b[2] + 65536 * b[3]
    IN  IF b[4] >= 128 THEN lo + 16777216 * (b[4] - 128) - 1073741824 - 1073741824
        ELSE lo + 16777216 * b[4]

Key_pi == <<112, 105>>   \* "pi"
Key_e == <<101>>         \* "e"
Key_n == <<110>>         \* "n"

Float_3_1416 == <<249, 15, 73, 64>>                    \* 3.1416f
Double_pi == <<24, 45, 68, 84, 251, 33, 9, 64>>        \* 3.1415926535897932
Double_pi15 == <<17, 45, 68, 84, 251, 33, 9, 64>>      \* 3.14159265358979
Double_1_5 == <<0, 0, 0, 0, 0, 0, 248, 63>>            \* 1.5
Float_NaN == <<0, 0, 192, 127>>                        \* numeric_limits<float>::quiet_NaN()
Double_NaN == <<0, 0, 0, 0, 0, 0, 248, 127>>           \* numeric_limits<double>::quiet_NaN()

\* the location an add uses: the given one, or _metaLoc when it is out of range
addLoc(f, loc) == IF LOC_UNKNOWN >= loc \/ LOC_COUNT <= loc THEN f.metaLoc ELSE loc

\* a store that leaves an existing name in the slot it has
storeMeta_inPlace(f, key, entry, loc) ==
    IF key \in DOMAIN f.meta
    THEN [f EXCEPT !.meta[key] = [entry EXCEPT !.loc = f.meta[key].loc,
                                               !.index = f.meta[key].index]]
    ELSE [f EXCEPT !.meta = (key :> entry) @@ f.meta,
                   !.metaLocCount[loc] = @ + 1,
                   !.metaLoc = loc]

\* the common tail of every add: store under key, count the location, remember it
storeMeta(f, key, entry, loc) ==
    [f EXCEPT !.meta = (key :> entry) @@ f.meta,
              !.metaLocCount[loc] = @ + 1,
              !.metaLoc = loc]

\* ";loc;index", the key and name of a comment
RECURSIVE Decimal(_)
Decimal(n) == IF n < 10 THEN <<48 + n>> ELSE Decimal(n \div 10) \o <<48 + (n % 10)>>

getCommentName(loc, index) == <<59>> \o Decimal(loc) \o <<59>> \o Decimal(index)

addMetaValFloat(f, name, data, loc) ==
    LET l == addLoc(f, loc)
    IN  storeMeta(f, name,
                  [type |-> paxFloat, loc |-> l, index |-> f.metaLocCount[l],
                   name |-> name, s |-> data, stripped |-> FALSE], l)

addMetaValDouble(f, name, data, loc) ==
    LET l == addLoc(f, loc)
    IN  storeMeta(f, name,
                  [type |-> paxDouble, loc |-> l, index |-> f.metaLocCount[l],
                   name |-> name, s |-> data, stripped |-> FALSE], l)

\* addMetaVal(name, int32_t): the value is widened to int64 and stored in n64
addMetaValInt32(f, name, data, loc) ==
    LET l == addLoc(f, loc)
    IN  storeMeta(f, name,
                  [type |-> paxInt32, loc |-> l, index |-> f.metaLocCount[l],
                   name |-> name, s |-> BytesLE(data, 8), stripped |-> FALSE], l)

\* addComment(string): at most 255 characters are kept
addComment(f, comment, loc) ==
    LET l == addLoc(f, loc)
        name == getCommentName(l, f.metaLocCount[l])
        text == SubSeq(comment, 1, IF Len(comment) < PAX_MAX_METADATA_STRING_LENGTH - 1
                                   THEN Len(comment)
                                   ELSE PAX_MAX_METADATA_STRING_LENGTH - 1)
    IN  storeMeta(f, name,
                  [type |-> paxComment, loc |-> l, index |-> f.metaLocCount[l],
                   name |-> name, s |-> text, stripped |-> Len(text) > 0], l)

(***************************************************************************)
(* The accessors.  Each returns the value and the status the call leaves   *)
(* (PAX_OK when it sets none).  A read past the bytes the store            *)
(* initialised is not modelled: the model calls an accessor only on        *)
(* entries that hold at least the bytes it reads.                          *)
(***************************************************************************)
hasMeta(f, key) == key \in DOMAIN f.meta

getMetaType(f, key) == IF hasMeta(f, key) THEN f.meta[key].type ELSE paxInvalid

getMetaFloat(f, key) ==
    IF ~hasMeta(f, key) \/ f.meta[key].type = paxInvalid
    THEN [val |-> Float_NaN, status |-> PAX_FAIL]
    ELSE [val |-> SubSeq(f.meta[key].s, 1, 4), status |-> PAX_OK]

getMetaDouble(f, key) ==
    IF ~hasMeta(f, key) \/ f.meta[key].type = paxInvalid
    THEN [val |-> Double_NaN, status |-> PAX_FAIL]
    ELSE [val |-> SubSeq(f.meta[key].s, 1, 8), status |-> PAX_OK]

\* getMetaInteger<int32_t>: numeric_limits<int32_t>::max() on a miss, no status set
getMetaInt32(f, key) ==
    IF ~hasMeta(f, key) \/ f.meta[key].type = paxInvalid
    THEN [val |-> 1073741824 + 1073741823, status |-> PAX_OK]
    ELSE [val |-> Int32Of(f.meta[key].s), status |-> PAX_OK]

(***************************************************************************)
(* Number formatting.  operator<< of an integer writes its decimal digits. *)
(* operator<< of a float or double with precision 15 writes the shortest   *)
(* text of at most 15 significant digits; FloatText and DoubleText give    *)
(* that text for the values of the model (computed from the IEEE-754 value *)
(* of the bytes).                                                          *)
(***************************************************************************)
SignedDecimal(n) == IF n < 0 THEN <<45>> \o Decimal(0 - n) ELSE Decimal(n)

\* std::fixed << setprecision(2) of the version
VersionText(v) == Decimal(v \div 100) \o <<46, 48 + ((v \div 10) % 10), 48 + (v % 10)>>

Text_3_14159989356995 == <<51, 46, 49, 52, 49, 53, 57, 57, 56, 57, 51, 53, 54, 57, 57, 53>>
Text_3_14159265358979 == <<51, 46, 49, 52, 49, 53, 57, 50, 54, 53, 51, 53, 56, 57, 55, 57>>
Text_1_5 == <<49, 46, 53>>

FloatText(b) ==
    CASE b = Float_3_1416 -> Text_3_14159989356995
      [] b = <<0, 0, 192, 63>> -> Text_1_5
      [] b = <<219, 15, 73, 64>> -> <<51, 46, 49, 52, 49, 53, 57, 50, 55, 52, 49, 48, 49, 50, 53, 55>>  \* 3.14159274101257
      [] OTHER -> <<48>>

DoubleText(b) ==
    CASE b = Double_pi -> Text_3_14159265358979
      [] b = Double_pi15 -> Text_3_14159265358979
      [] b = Double_1_5 -> Text_1_5
      [] OTHER -> <<48>>

\* getMetaTypeTag
getMetaTypeTag(type) ==
    CASE type = paxString -> <<115, 116, 114, 105, 110, 103>>   \* "string"
      [] type = paxFloat -> <<102, 108, 111, 97, 116>>          \* "float"
      [] type = paxDouble -> <<100, 111, 117, 98, 108, 101>>    \* "double"
      [] type = paxInt32 -> <<105, 110, 116, 51, 50>>           \* "int32"
      [] type = paxComment -> << >>
      [] OTHER -> <<105, 110, 118, 97, 108, 105, 100>>          \* "invalid"

(***************************************************************************)
(* The writer.                                                             *)
(***************************************************************************)
\* one metadata line as writeMeta writes it; key is the map key
metaLine(key, m) ==
    CASE m.type = paxComment ->
            (IF m.stripped THEN <<HASH, SPACE>> ELSE <<HASH>>) \o m.s \o <<LF>>
      [] m.type = paxString ->
            <<HASH, HASH, SPACE, LBRACKET>> \o getMetaTypeTag(paxString)
            \o <<RBRACKET, SPACE, SPACE, SPACE>> \o key
            \o (IF m.stripped THEN <<SPACE, EQUALS, SPACE>> ELSE <<SPACE, EQUALS>>)
            \o m.s \o <<LF>>
      [] m.type = paxInvalid -> << >>
      [] OTHER ->
            <<HASH, HASH, SPACE>>
            \o SubSeq(<<LBRACKET>> \o getMetaTypeTag(m.type)
                      \o <<RBRACKET, SPACE, SPACE, SPACE, SPACE, SPACE, SPACE>>, 1, 11)
            \o key \o <<SPACE, EQUALS, SPACE>>
            \o (CASE m.type = paxFloat -> FloatText(SubSeq(m.s, 1, 4))
                  [] m.type = paxDouble -> DoubleText(SubSeq(m.s, 1, 8))
                  [] OTHER -> SignedDecimal(Int32Of(m.s)))
            \o <<LF>>

RECURSIVE writeMeta(_, _)
\* writeMeta: the lines of the entries named by the key sequence metavec
writeMeta(f, metavec) ==
    IF metavec = << >> THEN << >>
    ELSE metaLine(Head(metavec), f.meta[Head(metavec)]) \o writeMeta(f, Tail(metavec))

\* the keys stored with location loc
keysAt(f, loc) == { k \in DOMAIN f.meta : f.meta[k].loc = loc }

\* the keys of a location in descending index order
metaVecsAt_descending(f, loc) ==
    LET K == keysAt(f, loc)
        n == Cardinality(K)
    IN  { v \in [1..n -> K] :
            /\ \A i, j \in 1..n : i < j => v[i] # v[j] /\ f.meta[v[i]].index >= f.meta[v[j]].index }

\* getMetaVecs: for each location the keys in index order.  The map is an
\* unordered_map and std::sort is not stable, so entries of equal index come
\* in any order: the result is one of these sequences.
metaVecsAt(f, loc) ==
    LET K == keysAt(f, loc)
        n == Cardinality(K)
    IN  { v \in [1..n -> K] :
            /\ \A i, j \in 1..n : i < j => v[i] # v[j] /\ f.meta[v[i]].index <= f.meta[v[j]].index }

getMetaVecs(f) ==
    { [l \in 0..(LOC_COUNT - 1) |-> t[l + 1]] :
        t \in metaVecsAt(f, LOC_AFTER_TAG) \X metaVecsAt(f, LOC_AFTER_BPV)
               \X metaVecsAt(f, LOC_AFTER_VPE) \X metaVecsAt(f, LOC_AFTER_SEQ)
               \X metaVecsAt(f, LOC_AFTER_STR1) }

\* a header line "TAG : n"
tagLine(tag, n) == tag \o <<SPACE, COLON, SPACE>> \o Decimal(n) \o <<LF>>

\* bpv(), vpe(): of the template parameter E
bpv(f) == getBPV(f.E)

vpe(f) == getVPE(f.E)

\* the bytes an uninitialised or out-of-bounds read can give
UninitBytes == {0, 204}

\* memcpy of dataLen bytes from _buf: bytes past the end of _buf are whatever
\* lies after it in memory (fill)
rasterBytes(f, dataLen, fill) ==
    [i \in 1..dataLen |-> IF i <= Len(f.buf) THEN f.buf[i] ELSE fill]

\* writeToBuffer, for one result mv of getMetaVecs
writeToBuffer(f, mv, fill) ==
    LET dataLen == bpv(f) * vpe(f) * f.numSequential * f.numStrided
    IN  PAX_TAG \o SignedDecimal(f.dataType) \o <<SPACE, COLON, SPACE, 118>>
        \o VersionText(f.version) \o <<SPACE, COLON, SPACE>> \o getTypeName(f.E) \o <<LF>>
        \o writeMeta(f, mv[LOC_AFTER_TAG])
        \o tagLine(BPV_TAG, bpv(f))
        \o writeMeta(f, mv[LOC_AFTER_BPV])
        \o tagLine(VPE_TAG, vpe(f))
        \o writeMeta(f, mv[LOC_AFTER_VPE])
        \o tagLine(DIM1_TAG, f.numSequential)
        \o writeMeta(f, mv[LOC_AFTER_SEQ])
        \o tagLine(DIM2_TAG, f.numStrided)
        \o writeMeta(f, mv[LOC_AFTER_STR1])
        \o tagLine(DATALEN_TAG, dataLen)
        \o rasterBytes(f, dataLen, fill)

\* the fills that matter: one when nothing is read out of bounds
fillsOf(f) ==
    IF bpv(f) * vpe(f) * f.numSequential * f.numStrided > Len(f.buf) THEN UninitBytes ELSE {0}

\* writeToBuffer's memcpy of dataLen bytes, for a raster whose dimensions
\* are beyond MaxRaster, reads far outside the few bytes import allocated
hugeRaster(f) == f.numSequential > MaxRaster \/ f.numStrided > MaxRaster

(***************************************************************************)
(* The reader's scanner (BufMan).  A position is 1 + the offset of _pos    *)
(* from _start.  The scanning functions of the source test no end of       *)
(* buffer; here a scan stops at the first position past the end,           *)
(* Len(b) + 1, and the caller treats a read there as an overrun (see       *)
(* importHeader).                                                          *)
(***************************************************************************)
\* The value a callee keeps in a local variable x is bound as
\*     (CHOOSE only \in {( F ) : x \in {v}} : TRUE)
\* which is F with x the value of v, v being evaluated once.  A column of
\* such bindings is read from its last line upwards, the order in which the
\* values are computed.

Past(b, p) == p > Len(b)

At(b, p) == IF p >= 1 /\ p <= Len(b) THEN b[p] ELSE NUL

\* eof(): (pos - _start) >= _len
eof(b, p) == p - 1 >= Len(b)

toLower(c) == IF c >= 65 /\ c <= 90 THEN c + 32 ELSE c

isWS(c, skipLF) == c = SPACE \/ c = TAB \/ c = CR \/ (skipLF /\ c = LF)

isJunkStop(c) == c \in {HASH, SPACE, TAB, CR, COLON, EQUALS, LBRACKET, RBRACKET, LF}

\* strchr(pos, '\n'): the position of the next LF, Len(b) + 1 when there is none
strchrLF(b, p) ==
    LET S == { q \in p..Len(b) : b[q] = LF }
    IN  IF Past(b, p) THEN p
        ELSE IF S = {} THEN Len(b) + 1
        ELSE CHOOSE q \in S : \A r \in S : q <= r

\* skipLine: past the next LF
skipLine(b, p) ==
    (CHOOSE only \in {(IF Past(b, lf) THEN Len(b) + 2 ELSE lf + 1) : lf \in {strchrLF(b, p)}} : TRUE)

RECURSIVE skipWS(_, _, _)
skipWS(b, p, skipLF) ==
    IF ~Past(b, p) /\ isWS(b[p], skipLF) THEN skipWS(b, p + 1, skipLF) ELSE p

RECURSIVE skipJunkTo(_, _)
skipJunkTo(b, p) == IF Past(b, p) \/ isJunkStop(b[p]) THEN p ELSE skipJunkTo(b, p + 1)

skipJunk(b, p, skipLF) ==
    (CHOOSE only \in {(IF skipLF /\ At(b, q) = LF THEN q + 1 ELSE q) : q \in {skipJunkTo(b, p)}} : TRUE)

skipJunkAndWS(b, p, skipLF) ==
    (CHOOSE only \in {(skipWS(b, q, skipLF)) : q \in {skipJunk(b, p, skipLF)}} : TRUE)

RECURSIVE toDelimiter(_, _)
toDelimiter(b, p) ==
    IF Past(b, p) \/ b[p] = COLON \/ b[p] = EQUALS THEN p ELSE toDelimiter(b, p + 1)

\* skipDelimiter: skipWS(++pos); to the ':' or '='; skipWS(++pos)
skipDelimiter(b, p, skipLF) ==
    (CHOOSE only \in {(
    (CHOOSE only \in {(
        IF Past(b, d) THEN d ELSE skipWS(b, d + 1, skipLF)
    ) : d \in {toDelimiter(b, w)}} : TRUE)
    ) : w \in {skipWS(b, p + 1, skipLF)}} : TRUE)

skipChar(b, skipme, p, skipLF) ==
    (CHOOSE only \in {(
        IF At(b, q) # skipme THEN q ELSE skipWS(b, q + 1, skipLF)
    ) : q \in {skipJunkAndWS(b, p, skipLF)}} : TRUE)

\* _stricmp of the Len(str) characters at p with str: TRUE when they match
matches(b, p, str) ==
    \A i \in 1..Len(str) : ~Past(b, p + i - 1) /\ toLower(b[p + i - 1]) = toLower(str[i])

\* compare(str): nonzero (TRUE) when the strings differ
compare(b, p, str) == ~matches(b, p, str)

\* getHeaderLineType: <<line type, position after skipWS, dim tag index>>
getHeaderLineType(b, p) ==
    (CHOOSE only \in {(
        CASE At(b, q) = HASH -> <<COMMENT, q, 0>>
          [] At(b, q) = ATSIGN -> <<METADATA, q, 0>>
          [] OTHER ->
             IF ~compare(b, q, PAX_TAG) THEN <<PAX, q, 0>>
             ELSE IF ~compare(b, q, BPV_TAG) THEN <<BPV, q, 0>>
             ELSE IF ~compare(b, q, VPE_TAG) THEN <<VPE, q, 0>>
             ELSE IF ~compare(b, q, DATALEN_TAG) THEN <<DATALEN, q, 0>>
             ELSE IF ~compare(b, q, DIM1_TAG) THEN <<DIM, q, 0>>
             ELSE IF ~compare(b, q, DIM2_TAG) THEN <<DIM, q, 1>>
             ELSE <<UNKNOWN, q, 0>>
    ) : q \in {skipWS(b, p, TRUE)}} : TRUE)

(***************************************************************************)
(* Number parsing.  strtol / strtoul skip leading white space (isspace),   *)
(* take an optional sign and the digits, and leave the position after the  *)
(* last digit, or where it was when there is no digit.  The model reads    *)
(* decimal numbers below MaxNumber (the headers it feeds hold no octal or  *)
(* hexadecimal numbers).                                                   *)
(***************************************************************************)
MaxNumber == 99999999

isDigit(c) == c >= 48 /\ c <= 57

isSpace(c) == c \in {SPACE, TAB, LF, 11, 12, CR}

RECURSIVE skipSpace(_, _)
skipSpace(b, p) == IF ~Past(b, p) /\ isSpace(b[p]) THEN skipSpace(b, p + 1) ELSE p

RECURSIVE digitsEnd(_, _)
digitsEnd(b, p) == IF ~Past(b, p) /\ isDigit(b[p]) THEN digitsEnd(b, p + 1) ELSE p

RECURSIVE digitsValue(_, _, _)
\* the value of the digits b[p..q-1], MaxNumber when it is larger
digitsValue(b, p, q) ==
    IF p >= q THEN 0
    ELSE (CHOOSE only \in {(
             IF head >= MaxNumber \div 10 THEN MaxNumber ELSE 10 * head + (b[q - 1] - 48)
    ) : head \in {digitsValue(b, p, q - 1)}} : TRUE)

\* strtol(pos, &pos, 10) and strtoul(pos, &pos, 0): [val, pos, any]
strtol(b, p) ==
    (CHOOSE only \in {(
    (CHOOSE only \in {(
    (CHOOSE only \in {(
        IF e = d THEN [val |-> 0, pos |-> p, any |-> FALSE]
        ELSE [val |-> IF At(b, s) = 45 THEN 0 - digitsValue(b, d, e)
                      ELSE digitsValue(b, d, e),
              pos |-> e, any |-> TRUE]
    ) : e \in {digitsEnd(b, d)}} : TRUE)
    ) : d \in {IF At(b, s) = 45 \/ At(b, s) = 43 THEN s + 1 ELSE s}} : TRUE)
    ) : s \in {skipSpace(b, p)}} : TRUE)

\* getUint32(skip): optional skipDelimiter, strtoul, skipJunkAndWS: [val, pos]
getUint32(b, p, skipDelim, skipLF) ==
    (CHOOSE only \in {(
    (CHOOSE only \in {(
        [val |-> n.val, pos |-> skipJunkAndWS(b, n.pos, skipLF)]
    ) : n \in {strtol(b, d)}} : TRUE)
    ) : d \in {IF skipDelim THEN skipDelimiter(b, p, TRUE) ELSE p}} : TRUE)

\* the text strtof / strtod convert: sign, digits, '.', digits: [from, pos]
floatToken(b, p) ==
    (CHOOSE only \in {(
    (CHOOSE only \in {(
    (CHOOSE only \in {(
    (CHOOSE only \in {(
        IF f = d \/ (f = d + 1 /\ At(b, d) = 46) THEN [from |-> p, pos |-> p]
        ELSE [from |-> s, pos |-> f]
    ) : f \in {IF At(b, e) = 46 THEN digitsEnd(b, e + 1) ELSE e}} : TRUE)
    ) : e \in {digitsEnd(b, d)}} : TRUE)
    ) : d \in {IF At(b, s) = 45 \/ At(b, s) = 43 THEN s + 1 ELSE s}} : TRUE)
    ) : s \in {skipSpace(b, p)}} : TRUE)

\* strtof / strtod of the texts the writer produces for the model's values:
\* the bytes of the nearest float / double
StrToF(text) ==
    CASE text = Text_3_14159989356995 -> Float_3_1416
      [] text = Text_3_14159265358979 -> <<219, 15, 73, 64>>
      [] text = Text_1_5 -> <<0, 0, 192, 63>>
      [] OTHER -> <<0, 0, 0, 0>>

\* a reader that parses the text of a double in single precision and widens
\* the result
StrToD_Single(text) ==
    CASE text = Text_3_14159265358979 -> <<0, 0, 0, 96, 251, 33, 9, 64>>
      [] text = Text_3_14159989356995 -> <<0, 0, 0, 32, 255, 33, 9, 64>>
      [] text = Text_1_5 -> Double_1_5
      [] OTHER -> <<0, 0, 0, 0, 0, 0, 0, 0>>

StrToD(text) ==
    CASE text = Text_3_14159265358979 -> Double_pi15
      [] text = Text_3_14159989356995 -> <<8, 0, 0, 32, 255, 33, 9, 64>>
      [] text = Text_1_5 -> Double_1_5
      [] OTHER -> <<0, 0, 0, 0, 0, 0, 0, 0>>

(***************************************************************************)
(* BufMan::getMeta.  metaLoc and metaIdx are the reader's _metaLoc and     *)
(* _metaIdx; uninit is the value an uninitialised stripped flag reads as.  *)
(* The result holds the key and entry to store, the new position, and      *)
(* overrun: TRUE when the scan left the buffer.  getMeta returns a         *)
(* reference to a temporary; the model takes the value the temporary held. *)
(* Metadata arrays are not modelled (no input of the model holds one).     *)
(***************************************************************************)
badMeta ==
    [type |-> paxInvalid, loc |-> LOC_UNKNOWN, index |-> 0, name |-> << >>,
     s |-> << >>, stripped |-> FALSE]

METATYPE_DOUBLE_TAG == <<100, 111, 117, 98, 108, 101>>    \* "double"

\* the type tags in the order of paxMetaDataTypes: <<type, tag>>
metaTypeTags ==
    << <<0, <<115, 116, 114, 105, 110, 103>> >>,    \* "string"
       <<1, <<102, 108, 111, 97, 116>> >>,          \* "float"
       <<2, METATYPE_DOUBLE_TAG>>,
       <<3, <<105, 110, 116, 54, 52>> >>,           \* "int64"
       <<4, <<117, 105, 110, 116, 54, 52>> >>,      \* "uint64"
       <<5, <<105, 110, 116, 51, 50>> >>,           \* "int32"
       <<6, <<117, 105, 110, 116, 51, 50>> >>,      \* "uint32"
       <<7, <<105, 110, 116, 49, 54>> >>,           \* "int16"
       <<8, <<117, 105, 110, 116, 49, 54>> >>,      \* "uint16"
       <<9, <<105, 110, 116, 56>> >>,               \* "int8"
       <<10, <<117, 105, 110, 116, 56>> >> >>       \* "uint8"

\* the first type whose tag is at p, paxInvalid when none is
matchTypeTag(b, p) ==
    LET hits == { i \in 1..Len(metaTypeTags) : matches(b, p, metaTypeTags[i][2]) }
    IN  IF hits = {} THEN paxInvalid
        ELSE metaTypeTags[CHOOSE i \in hits : \A j \in hits : i <= j][1]

RECURSIVE nameEnd(_, _)
nameEnd(b, p) ==
    IF Past(b, p) \/ b[p] \in {SPACE, TAB, COLON, EQUALS, LBRACKET} THEN p
    ELSE nameEnd(b, p + 1)

\* strncat copies up to the first NUL
untilNul(t) ==
    LET S == { i \in 1..Len(t) : t[i] = NUL }
    IN  IF S = {} THEN t
        ELSE SubSeq(t, 1, (CHOOSE i \in S : \A j \in S : i <= j) - 1)

\* the text of a comment or string value that starts at p and ends before eol:
\* [s, stripped]
lineText(b, p, eol, uninit) ==
    (CHOOSE only \in {(
    (CHOOSE only \in {(
    LET sp == At(b, p) = SPACE
        from == IF sp THEN p + 1 ELSE p
        len == IF sp THEN len1 - 1 ELSE len1
    IN  [s |-> untilNul(SubSeq(b, from, from + len - 1)),
         stripped |-> IF sp THEN TRUE ELSE uninit]
    ) : len1 \in {IF At(b, p + len0 - 1) = CR THEN len0 - 1 ELSE len0}} : TRUE)
    ) : len0 \in {IF eol - p >= PAX_MAX_METADATA_STRING_LENGTH
        THEN PAX_MAX_METADATA_STRING_LENGTH - 1 ELSE eol - p}} : TRUE)

\* len is the reader's _len: a line feed at or beyond it is eof(eol), and the
\* bad pair is returned with the read position where it was
getMetaComment(b, len, p, metaLoc, metaIdx, uninit) ==
    (CHOOSE only \in {(
        IF Past(b, eol)
        THEN [key |-> << >>, entry |-> badMeta, pos |-> p, stored |-> FALSE, overrun |-> TRUE]
        ELSE IF eol - 1 >= len
        THEN [key |-> << >>, entry |-> badMeta, pos |-> p, stored |-> TRUE, overrun |-> FALSE]
        ELSE (CHOOSE only \in {(
             (CHOOSE only \in {(
             [key |-> name,
              entry |-> [type |-> paxComment, loc |-> metaLoc, index |-> metaIdx,
                         name |-> name, s |-> t.s, stripped |-> t.stripped],
              pos |-> eol + 1, stored |-> TRUE, overrun |-> FALSE]
             ) : name \in {getCommentName(metaLoc, metaIdx)}} : TRUE)
        ) : t \in {lineText(b, p + 1, eol, uninit)}} : TRUE)
    ) : eol \in {strchrLF(b, p + 1)}} : TRUE)

\* the scalar value of a metadata line of the given type at p: [s, stripped, pos]
getMetaValue(b, type, p, uninit) ==
    CASE type = paxString ->
            (CHOOSE only \in {(
            (CHOOSE only \in {(
                [s |-> t.s, stripped |-> t.stripped, pos |-> eol]
            ) : t \in {lineText(b, p, eol, uninit)}} : TRUE)
            ) : eol \in {strchrLF(b, p)}} : TRUE)
      [] type = paxFloat ->
            (CHOOSE only \in {(
                [s |-> StrToF(SubSeq(b, t.from, t.pos - 1)), stripped |-> FALSE,
                 pos |-> skipJunkAndWS(b, t.pos, FALSE)]
            ) : t \in {floatToken(b, p)}} : TRUE)
      [] type = paxDouble ->
            (CHOOSE only \in {(
                [s |-> StrToD(SubSeq(b, t.from, t.pos - 1)), stripped |-> FALSE,
                 pos |-> skipJunkAndWS(b, t.pos, FALSE)]
            ) : t \in {floatToken(b, p)}} : TRUE)
      [] OTHER ->
            (CHOOSE only \in {(
                [s |-> BytesLE(n.val, 8), stripped |-> FALSE,
                 pos |-> skipJunkAndWS(b, n.pos, FALSE)]
            ) : n \in {strtol(b, p)}} : TRUE)

getMetaData(b, p, metaLoc, metaIdx, uninit) ==
    (CHOOSE only \in {(
    (CHOOSE only \in {(
        IF type = paxInvalid
        THEN \* skipLine runs while a TempNull holds a NUL strlen("double") bytes
             \* past the start of the tag: strchr finds the line feed only before
             \* it, and returns NULL otherwise
             (CHOOSE only \in {(
             LET found == ~Past(b, lf) /\ lf < tagPos + Len(METATYPE_DOUBLE_TAG)
             IN  [key |-> << >>, entry |-> badMeta,
                  pos |-> IF found THEN lf + 1 ELSE Len(b) + 2, stored |-> TRUE,
                  overrun |-> Past(b, tagPos) \/ ~found]
             ) : lf \in {strchrLF(b, p)}} : TRUE)
        ELSE
    (CHOOSE only \in {(
    (CHOOSE only \in {(
    (CHOOSE only \in {(
    (CHOOSE only \in {(
    (CHOOSE only \in {(
    (CHOOSE only \in {(
    (CHOOSE only \in {(
        IF At(b, afterName) = LBRACKET \/ newPos > Len(b) + 1
        THEN [key |-> << >>, entry |-> badMeta, pos |-> p, stored |-> FALSE, overrun |-> TRUE]
        ELSE [key |-> name,
              entry |-> [type |-> type, loc |-> metaLoc, index |-> metaIdx,
                         name |-> name, s |-> v.s, stripped |-> v.stripped],
              pos |-> newPos, stored |-> TRUE, overrun |-> FALSE]
    ) : name \in {SubSeq(b, namePos, nEnd - 1)}} : TRUE)
    ) : newPos \in {skipLine(b, v.pos)}} : TRUE)
    ) : v \in {getMetaValue(b, type, valPos, uninit)}} : TRUE)
    ) : valPos \in {toDelimiter(b, afterName) + 1}} : TRUE)
    ) : afterName \in {skipWS(b, nEnd, TRUE)}} : TRUE)
    ) : nEnd \in {nameEnd(b, namePos)}} : TRUE)
    ) : namePos \in {skipChar(b, RBRACKET, tagPos, TRUE)}} : TRUE)
    ) : type \in {matchTypeTag(b, tagPos)}} : TRUE)
    ) : tagPos \in {skipChar(b, LBRACKET, p + 2, TRUE)}} : TRUE)

getMeta(b, len, p, metaLoc, metaIdx, uninit) ==
    IF At(b, p) # HASH
    THEN [key |-> << >>, entry |-> badMeta, pos |-> p, stored |-> TRUE, overrun |-> FALSE]
    ELSE IF At(b, p + 1) # HASH
    THEN getMetaComment(b, len, p, metaLoc, metaIdx, uninit)
    ELSE getMetaData(b, p, metaLoc, metaIdx, uninit)

(***************************************************************************)
(* validatePaxTag: the type line.  The line is NUL-terminated at its LF    *)
(* while it is parsed.  Result: [valid, type, version, pos].               *)
(***************************************************************************)
\* strtof of a version text "d.dd", in hundredths
versionOf(b, from, to) ==
    (CHOOSE only \in {(
    LET frac(i) == IF e + i < to /\ isDigit(At(b, e + i)) THEN At(b, e + i) - 48 ELSE 0
    IN  100 * digitsValue(b, from, e) + 10 * frac(1) + frac(2)
    ) : e \in {digitsEnd(b, from)}} : TRUE)

validatePaxTag(b, p) ==
    (CHOOSE only \in {(
    (CHOOSE only \in {(
    (CHOOSE only \in {(
    (CHOOSE only \in {(
    LET numOk == n.val # 0 \/ At(b0, p + Len(PAX_TAG)) = 48
        paxType == IF numOk /\ isPaxType(n.val) THEN n.val ELSE ePAX_INVALID
        hasV == At(b0, d1) = 118 \/ At(b0, d1) = 86
    IN  IF \E i \in 1..Len(PAX_TAG) : At(b0, p + i - 1) # PAX_TAG[i]
        THEN [valid |-> FALSE, type |-> ePAX_INVALID, version |-> 0, pos |-> p]
        ELSE IF paxType = ePAX_INVALID
        THEN [valid |-> FALSE, type |-> ePAX_INVALID, version |-> 0, pos |-> n.pos]
        ELSE IF ~hasV
        THEN [valid |-> TRUE, type |-> paxType, version |-> 0, pos |-> skipLine(b, d1)]
        ELSE (CHOOSE only \in {(
             (CHOOSE only \in {(
             (CHOOSE only \in {(
                 [valid |-> TRUE, type |-> paxType,
                  version |-> versionOf(b0, vt.from, vt.pos),
                  pos |-> skipLine(b, d2)]
             ) : d2 \in {skipDelimiter(b0, vt.pos, FALSE)}} : TRUE)
             ) : vt \in {floatToken(b0, w)}} : TRUE)
        ) : w \in {skipWS(b0, d1 + 1, TRUE)}} : TRUE)
    ) : d1 \in {skipDelimiter(b0, n.pos, FALSE)}} : TRUE)
    ) : n \in {strtol(b0, p + Len(PAX_TAG))}} : TRUE)
    ) : b0 \in {[i \in 1..Len(b) |-> IF i = eol THEN NUL ELSE b[i]]}} : TRUE)
    ) : eol \in {strchrLF(b, p)}} : TRUE)

(***************************************************************************)
(* importHeader.  The loop state: pos, the line type found by the          *)
(* look-ahead (NOT_CHECKED when none), the values read, the map, the       *)
(* reader's _metaLoc / _metaIdx, and fault: "none", or "overrun" when the  *)
(* reader read outside the buffer, or "hang" when the loop makes no        *)
(* progress.  After a fault nothing the function returns is defined.       *)
(***************************************************************************)
RECURSIVE skipUnknown(_, _, _)
\* the look-ahead after skipLine: <<type, pos, dim tag index, overrun>>.  len
\* is the reader's _len, which preview sets below the length of the buffer.
skipUnknown(b, len, p) ==
    (CHOOSE only \in {(
        IF p > Len(b) + 1 \/ Past(b, t[2]) THEN <<UNKNOWN, p, 0, TRUE>>
        ELSE IF t[1] # UNKNOWN THEN <<t[1], t[2], t[3], FALSE>>
        ELSE IF t[2] - 1 >= len THEN <<UNKNOWN, t[2], 0, FALSE>>
        ELSE (CHOOSE only \in {(skipUnknown(b, len, q)) : q \in {skipLine(b, t[2])}} : TRUE)
    ) : t \in {getHeaderLineType(b, p)}} : TRUE)

\* one pass of the while loop
headerStep(b, st, count0, uninit) ==
    (CHOOSE only \in {(
    LET q == t[2]
        \* a tag line: the number is read and the reader is at LOC_AFTER_TAG
        at0(num) == [st EXCEPT !.metaLoc = LOC_AFTER_TAG, !.metaIdx = count0,
                               !.type = NOT_CHECKED, !.pos = num.pos,
                               !.fault = IF num.pos > Len(b) + 1 THEN "overrun"
                                         ELSE "none"]
        \* any other line: skipLine and the look-ahead
        next(la) == [st EXCEPT !.type = la[1], !.pos = la[2], !.dimTagIndex = la[3],
                               !.fault = IF la[4] THEN "overrun" ELSE "none"]
        numberLine == (CHOOSE only \in {(
            CASE t[1] = BPV -> [at0(num) EXCEPT !.bpv = num.val]
              [] t[1] = VPE -> [at0(num) EXCEPT !.vpe = num.val]
              [] t[1] = DIM /\ t[3] = 0 ->
                    [at0(num) EXCEPT !.numSequential = num.val, !.dim1count = @ + 1]
              [] t[1] = DIM /\ t[3] # 0 ->
                    [at0(num) EXCEPT !.numStrided = num.val, !.dim2count = @ + 1]
              [] OTHER ->
                    [at0(num) EXCEPT !.dataLen = num.val, !.datalencount = @ + 1,
                                     !.done = TRUE]
        ) : num \in {getUint32(b, q, TRUE, TRUE)}} : TRUE)
        metaEntry == (CHOOSE only \in {(
            [st EXCEPT !.type = NOT_CHECKED, !.pos = g.pos,
                       !.meta = IF g.stored THEN (g.key :> g.entry) @@ @ ELSE @,
                       !.metaIdx = IF g.entry.type # paxInvalid THEN @ + 1 ELSE @,
                       !.fault = IF g.overrun THEN "overrun"
                                 ELSE IF g.pos = q THEN "hang" ELSE "none"]
        ) : g \in {getMeta(b, st.len, q, st.metaLoc, st.metaIdx, uninit)}} : TRUE)
        otherLine == (CHOOSE only \in {(
                     (CHOOSE only \in {(next(la)) : la \in {skipUnknown(b, st.len, l)}} : TRUE)
        ) : l \in {skipLine(b, q)}} : TRUE)
    IN  CASE Past(b, q) -> [st EXCEPT !.fault = "overrun"]
          [] t[1] = PAX -> [otherLine EXCEPT !.metaLoc = LOC_AFTER_TAG, !.metaIdx = count0]
          [] t[1] \in {BPV, VPE, DIM, DATALEN} -> numberLine
          [] t[1] \in {COMMENT, METADATA} -> IF st.fastImport THEN otherLine ELSE metaEntry
          [] OTHER -> otherLine
    ) : t \in {IF st.type = NOT_CHECKED THEN getHeaderLineType(b, st.pos)
        ELSE <<st.type, st.pos, st.dimTagIndex>>}} : TRUE)

RECURSIVE headerLoop(_, _, _, _)
headerLoop(b, st, count0, uninit) ==
    IF st.done \/ st.fault # "none" \/ st.pos - 1 >= st.len THEN st
    ELSE (CHOOSE only \in {(
             headerLoop(b, s, count0, uninit)
    ) : s \in {headerStep(b, st, count0, uninit)}} : TRUE)

\* the loop state when the type line has been read
headerStart(pos, len, f, idx0, fastImport) ==
    [pos |-> pos, type |-> NOT_CHECKED, dimTagIndex |-> 0,
     bpv |-> 0, vpe |-> 0, dim1count |-> 0, dim2count |-> 0,
     datalencount |-> 0, dataLen |-> 0,
     numSequential |-> f.numSequential, numStrided |-> f.numStrided,
     meta |-> f.meta, metaLoc |-> LOC_AFTER_TAG, metaIdx |-> idx0,
     len |-> len, fastImport |-> fastImport,
     done |-> FALSE, fault |-> "none"]

\* importHeader into f: [ret, file, dataLen, pos, fault].  idx0 is the value the
\* uninitialised _metaIdx of a new BufMan holds, uninit the value an
\* uninitialised stripped flag reads as.
\* len is the reader's _len, fastImport the flag preview passes.
importHeaderOf(b, len, f, idx0, uninit, fastImport) ==
    (CHOOSE only \in {(
    IF ~tag.valid
    THEN [ret |-> PAX_FAIL, file |-> f, dataLen |-> 0, pos |-> tag.pos, fault |-> "none"]
    ELSE IF tag.pos > Len(b) + 1
    THEN [ret |-> PAX_FAIL, file |-> f, dataLen |-> 0, pos |-> tag.pos, fault |-> "overrun"]
    ELSE
    (CHOOSE only \in {(
    (CHOOSE only \in {(
    LET myDataLen == MulWord(MulWord(Word(st.bpv * st.vpe), st.numSequential), st.numStrided)
        res(r, g) == [ret |-> r, file |-> g, dataLen |-> st.dataLen, pos |-> st.pos,
                      fault |-> st.fault]
    IN  IF st.fault # "none" THEN res(PAX_FAIL, f1)
        ELSE IF st.dim1count # 1 \/ st.dim2count # 1 \/ st.datalencount # 1
        THEN res(PAX_INVALID, f1)
        ELSE IF getBPV(tag.type) # st.bpv THEN res(PAX_INVALID, f1)
        ELSE IF getVPE(tag.type) # st.vpe THEN res(PAX_INVALID, f1)
        ELSE IF Word(st.dataLen) # myDataLen THEN res(PAX_INVALID, f1)
        ELSE res(PAX_OK, [f1 EXCEPT !.numValues =
                             Int32OfWord(MulWord(Word(st.numSequential), st.numStrided))])
    ) : f1 \in {[f EXCEPT !.dataType = tag.type, !.version = tag.version, !.meta = st.meta,
                  !.numSequential = st.numSequential, !.numStrided = st.numStrided]}} : TRUE)
    ) : st \in {headerLoop(b, headerStart(tag.pos, len, f, idx0, fastImport),
                   f.metaLocCount[LOC_AFTER_TAG], uninit)}} : TRUE)
    ) : tag \in {validatePaxTag(b, 1)}} : TRUE)

\* importHeader(buf, dataLen) of a reader over all of b
importHeader(b, f, idx0, uninit) == importHeaderOf(b, Len(b), f, idx0, uninit, FALSE)

(***************************************************************************)
(* import.                                                                 *)
(***************************************************************************)
\* reset(): the data type and the version are kept
reset(f) ==
    [f EXCEPT !.numValues = 0, !.numSequential = 0, !.numStrided = 0, !.buf = << >>,
              !.meta = << >>, !.metaLoc = LOC_END,
              !.metaLocCount = [l \in 0..(LOC_COUNT - 1) |-> 0]]

\* copyData: [data, pos]; nothing is copied when fewer than len bytes remain, and
\* the destination keeps the zeroes make_shared filled it with
copyData(b, p, len) ==
    IF len > Len(b) - (p - 1)
    THEN [data |-> [i \in 1..len |-> 0], pos |-> p]
    ELSE [data |-> SubSeq(b, p, p + len - 1), pos |-> p + len]

\* import(char*, size_t) into f: [ret, file, fault].  fault is "throw" when
\* getMetaVecs indexes its vector with the location of an entry that has none.
\* b is the memory the pointer leads to and len the length the caller passes.
importOf(b, len, f, idx0, uninit) ==
    (CHOOSE only \in {(
    (CHOOSE only \in {(
        IF h.ret # PAX_OK THEN [ret |-> PAX_FAIL, file |-> h.file, fault |-> h.fault]
        ELSE IF \E k \in DOMAIN h.file.meta : h.file.meta[k].loc \notin 0..(LOC_COUNT - 1)
        THEN [ret |-> PAX_FAIL, file |-> h.file, fault |-> "throw"]
        ELSE (CHOOSE only \in {(
             [ret |-> PAX_OK,
              file |-> [h.file EXCEPT
                          !.metaLocCount = [l \in 0..(LOC_COUNT - 1) |->
                                               Cardinality(keysAt(h.file, l))],
                          !.buf = c.data,
                          !.importedLength = c.pos - 1],
              fault |-> "none"]
        ) : c \in {copyData(SubSeq(b, 1, len), h.pos, h.dataLen)}} : TRUE)
    ) : h \in {importHeaderOf(b, len, f0, idx0, uninit, FALSE)}} : TRUE)
    ) : f0 \in {IF f.numValues # 0 \/ f.numSequential # 0 \/ f.numStrided # 0
           \/ f.buf # << >> \/ f.meta # << >>
        THEN reset(f) ELSE f}} : TRUE)

\* import of a buffer that ends where the memory does
import(b, f, idx0, uninit) == importOf(b, Len(b), f, idx0, uninit)

\* import(fileName): readFile, then the length check, then import(paxBufPtr)
importFile(b, f, idx0, uninit) ==
    IF Len(b) < MIN_PAX_LENGTH THEN [ret |-> PAX_FAIL, file |-> f, fault |-> "none"]
    ELSE import(b, f, idx0, uninit)

(***************************************************************************)
(* The calls the model makes on the file it builds.                        *)
(***************************************************************************)
FloatCalls == { <<Key_pi, Float_3_1416, LOC_UNKNOWN>> }

DoubleCalls == { <<Key_pi, Double_pi, LOC_UNKNOWN>>, <<Key_e, Double_1_5, LOC_AFTER_SEQ>> }

Int32Calls == { <<Key_n, -8, LOC_AFTER_TAG>> }

CommentCalls == { <<(<<97>>), LOC_AFTER_BPV>>,     \* "a"
                  <<(<<99>>), LOC_AFTER_VPE>> }    \* "c"

\* how many adds the file has seen
adds(f) == f.metaLocCount[0] + f.metaLocCount[1] + f.metaLocCount[2]
           + f.metaLocCount[3] + f.metaLocCount[4]

\* the values an uninitialised read gives in the model: <<_metaIdx, stripped>>
UninitReads == { <<0, FALSE>>, <<7, TRUE>> }

\* the template parameters import is instantiated with
ImportTypes == {ePAX_UCHAR, ePAX_FLOAT}

\* how many bytes the caller cuts off the end of a written buffer
MaxCut == 1

NoHdr == [type |-> -1, bpv |-> 0, vpe |-> 0, dim1 |-> 0, dim2 |-> 0, dataLen |-> 0]

\* the headers a caller crafts: every line present and well formed, the numbers free
CraftedHdrs ==
    [type : {ePAX_UCHAR, ePAX_FLOAT}, bpv : {1, 4}, vpe : {1}, dim1 : {2, 3, 65536},
     dim2 : {1, 3, 65536}, dataLen : {0, 2, 8, 36, 40}]

\* a header of type META_ONLY with no BYTES_PER_VALUE and VALUES_PER_ELEMENT line
ShortHdr == [type |-> ePAX_META_ONLY, bpv |-> 0, vpe |-> 0, dim1 |-> 0, dim2 |-> 0,
             dataLen |-> 0]

\* the bytes of a crafted header, followed by max(dataLen, 1) bytes 'x'
craft(h) ==
    PAX_TAG \o SignedDecimal(h.type) \o <<SPACE, COLON, SPACE, 118>>
    \o VersionText(PAX_VERSION) \o <<SPACE, COLON, SPACE, 120, LF>>
    \o (IF h.type = ePAX_META_ONLY THEN << >>
        ELSE tagLine(BPV_TAG, h.bpv) \o tagLine(VPE_TAG, h.vpe))
    \o tagLine(DIM1_TAG, h.dim1)
    \o tagLine(DIM2_TAG, h.dim2)
    \o tagLine(DATALEN_TAG, h.dataLen)
    \o [i \in 1..(IF h.dataLen = 0 THEN 1 ELSE h.dataLen) |-> 120]

Init ==
    /\ \E c \in Constructions : file = init(c[1], c[2], c[3], c[4])
    /\ outBuf = << >>
    /\ origin = "none"
    /\ dest = init(ePAX_UCHAR, 0, 0, << >>)
    /\ ret = PAX_OK
    /\ fault = "none"
    /\ hdr = NoHdr
    /\ outBuf2 = << >>
    /\ pc = "build"
    /\ clean = << >>
    /\ garbage = <<0, FALSE>>
    /\ edit = << >>
    /\ acc = << >>
    /\ files = << >>
    /\ dests = << >>
    /\ pre = << >>
    /\ status = PAX_OK /\ got = << >> /\ rd = << >> /\ ck = << >>

Unchanged_rest == UNCHANGED <<outBuf, origin, dest, ret, fault, hdr, outBuf2, pc, others>>

AddMetaValFloat ==
    /\ pc = "build" /\ adds(file) < MaxAdds
    /\ \E c \in FloatCalls : file' = addMetaValFloat(file, c[1], c[2], c[3])
    /\ Unchanged_rest

AddMetaValDouble ==
    /\ pc = "build" /\ adds(file) < MaxAdds
    /\ \E c \in DoubleCalls : file' = addMetaValDouble(file, c[1], c[2], c[3])
    /\ Unchanged_rest

AddMetaValInt32 ==
    /\ pc = "build" /\ adds(file) < MaxAdds
    /\ \E c \in Int32Calls : file' = addMetaValInt32(file, c[1], c[2], c[3])
    /\ Unchanged_rest

AddComment ==
    /\ pc = "build" /\ adds(file) < MaxAdds
    /\ \E c \in CommentCalls : file' = addComment(file, c[1], c[2])
    /\ Unchanged_rest

WriteToBuffer ==
    /\ pc = "build"
    /\ \E mv \in getMetaVecs(file) : \E fill \in fillsOf(file) :
          outBuf' = writeToBuffer(file, mv, fill)
    /\ origin' = "written"
    /\ pc' = "written"
    /\ UNCHANGED <<file, dest, ret, fault, hdr, outBuf2, others>>

\* the caller hands import a buffer that lost its last k bytes
Truncate ==
    /\ pc = "written" /\ origin = "written"
    /\ \E k \in 1..MaxCut : outBuf' = SubSeq(outBuf, 1, Len(outBuf) - k)
    /\ origin' = "truncated"
    /\ UNCHANGED <<file, dest, ret, fault, hdr, outBuf2, pc, others>>

\* the caller hands import bytes of its own
Craft ==
    /\ pc = "build" /\ adds(file) = 0
    /\ \E h \in CraftedHdrs \cup {ShortHdr} : hdr' = h /\ outBuf' = craft(h)
    /\ origin' = "crafted"
    /\ pc' = "written"
    /\ UNCHANGED <<file, dest, ret, fault, outBuf2, others>>

\* rasterFile<E2> d; d.import(fileName) of a file that holds outBuf
ImportFile ==
    /\ pc = "written"
    /\ \E E2 \in ImportTypes : \E u \in UninitReads :
          LET r == importFile(outBuf, init(E2, 0, 0, << >>), u[1], u[2])
          IN  dest' = r.file /\ ret' = r.ret /\ fault' = r.fault
    /\ pc' = "imported"
    /\ UNCHANGED <<file, outBuf, origin, hdr, outBuf2, others>>

\* rasterFile<E2> d; d.import(buf, len) / d.import(paxBufPtr)
ImportBuffer ==
    /\ pc = "written"
    /\ \E E2 \in ImportTypes : \E u \in UninitReads :
          LET r == import(outBuf, init(E2, 0, 0, << >>), u[1], u[2])
          IN  dest' = r.file /\ ret' = r.ret /\ fault' = r.fault
    /\ pc' = "imported"
    /\ UNCHANGED <<file, outBuf, origin, hdr, outBuf2, others>>

\* dest.writeToBuffer after a successful import
WriteToBuffer2 ==
    /\ pc = "imported" /\ ret = PAX_OK /\ fault = "none"
    /\ IF hugeRaster(dest)
          THEN outBuf2' = << >> /\ fault' = "overrun"
          ELSE /\ \E mv \in getMetaVecs(dest) : \E fill \in fillsOf(dest) :
                     outBuf2' = writeToBuffer(dest, mv, fill)
               /\ fault' = fault
    /\ pc' = "rewritten"
    /\ UNCHANGED <<file, outBuf, origin, dest, ret, hdr, others>>

Next ==
    \/ AddMetaValFloat
    \/ AddMetaValDouble
    \/ AddMetaValInt32
    \/ AddComment
    \/ WriteToBuffer
    \/ Truncate
    \/ Craft
    \/ ImportFile
    \/ ImportBuffer
    \/ WriteToBuffer2

Spec == Init /\ [][Next]_vars

(***************************************************************************)
(* Properties                                                              *)
(***************************************************************************)
\* the import of a written, untouched buffer into a file of the same template
\* type has returned, without reading outside the buffer
roundTripped ==
    /\ pc = "imported" /\ origin = "written"
    /\ dest.E = file.E /\ fault = "none"

\* C1: round trip of the raster: importing the buffer writeToBuffer produced
\* from a model succeeds and gives a raster equal to the model's, byte for byte
C1_RasterRoundTrip ==
    roundTripped => ret = PAX_OK /\ dest.buf = file.buf

\* an import that returned PAX_OK and left a raster that differs from the
\* one written
C1_RasterLost ==
    roundTripped /\ ret = PAX_OK /\ dest.buf # file.buf

\* the numeric kinds of metadata
numericKinds == {paxFloat, paxDouble, paxInt32}

\* the accessor of a kind
accessor(f, key, kind) ==
    CASE kind = paxFloat -> getMetaFloat(f, key)
      [] kind = paxDouble -> getMetaDouble(f, key)
      [] OTHER -> getMetaInt32(f, key)

\* each add of the menu, read back at once with the accessor of its kind,
\* gives the value added
addedIsReadBack ==
    /\ \A c \in FloatCalls :
          getMetaFloat(addMetaValFloat(file, c[1], c[2], c[3]), c[1])
            = [val |-> c[2], status |-> PAX_OK]
    /\ \A c \in DoubleCalls :
          getMetaDouble(addMetaValDouble(file, c[1], c[2], c[3]), c[1])
            = [val |-> c[2], status |-> PAX_OK]
    /\ \A c \in Int32Calls :
          getMetaInt32(addMetaValInt32(file, c[1], c[2], c[3]), c[1])
            = [val |-> c[2], status |-> PAX_OK]

\* the numeric entries of the written file
numericKeys == { k \in DOMAIN file.meta : file.meta[k].type \in numericKinds }

\* a double that is not the nearest double of any decimal text of 15
\* significant digits: 3.1415926535897932 needs 17
needsMoreThan15Digits(m) == m.type = paxDouble /\ m.s = Double_pi

C3_NoSilentCoercion ==
    \A k \in DOMAIN file.meta :
       file.meta[k].type = paxDouble =>
          /\ getMetaDouble(file, k) = [val |-> file.meta[k].s, status |-> PAX_OK]
          /\ getMetaFloat(file, k).status # PAX_OK

\* getMetaFloat of the double "pi" gives, with no error, the float whose four
\* bytes are the low half of the double
C3_Coerced ==
    /\ Key_pi \in DOMAIN file.meta
    /\ file.meta[Key_pi].type = paxDouble
    /\ getMetaDouble(file, Key_pi).val = Double_pi
    /\ getMetaFloat(file, Key_pi) = [val |-> <<24, 45, 68, 84>>, status |-> PAX_OK]

\* the file imported from a written, untouched buffer into the same template
\* type has been written again
reencoded ==
    /\ pc = "rewritten" /\ origin = "written"
    /\ dest.E = file.E /\ fault = "none"

\* C4: idempotence of encode: writeToBuffer(import(writeToBuffer(m))) equals
\* writeToBuffer(m) byte for byte, whatever was added to m at whatever location
C4_EncodeIdempotent ==
    reencoded => outBuf2 = outBuf

\* a file whose raster and only entry, the float "pi", came back unchanged
\* from the import is written as different bytes the second time
C4_NotIdempotent ==
    /\ reencoded
    /\ dest.buf = file.buf
    /\ DOMAIN file.meta = {Key_pi} /\ DOMAIN dest.meta = {Key_pi}
    /\ file.meta[Key_pi].type = paxFloat
    /\ dest.meta[Key_pi].s = file.meta[Key_pi].s
    /\ outBuf2 # outBuf

\* the entry of dest that came from the entry k of file: a numeric entry is
\* found by its name, a comment (whose name import makes anew) by its text
imageOf(k) ==
    IF file.meta[k].type = paxComment
    THEN { j \in DOMAIN dest.meta :
             dest.meta[j].type = paxComment /\ dest.meta[j].s = file.meta[k].s }
    ELSE { j \in DOMAIN dest.meta : j = k }

\* two entries of file in one location, the first of lower index
orderedPairs ==
    { p \in (DOMAIN file.meta) \X (DOMAIN file.meta) :
        /\ file.meta[p[1]].loc = file.meta[p[2]].loc
        /\ file.meta[p[1]].index < file.meta[p[2]].index }

\* C5: round trip of the metadata order: two entries stored in the same
\* location of m, the first of lower index, both exist after
\* import(writeToBuffer(m)), in one location, the first still of lower index
C5_OrderRoundTrip ==
    roundTripped =>
       \A p \in orderedPairs :
          \E i \in imageOf(p[1]) : \E j \in imageOf(p[2]) :
             /\ dest.meta[i].loc = dest.meta[j].loc
             /\ dest.meta[i].index < dest.meta[j].index

\* the comment "a" and the float "pi" went out in this order in one location,
\* and the import succeeded, but no entry of the imported file holds "a"
C5_EntryLost ==
    /\ roundTripped /\ ret = PAX_OK
    /\ \E p \in orderedPairs :
          /\ file.meta[p[1]].type = paxComment /\ file.meta[p[1]].s = <<97>>
          /\ p[2] = Key_pi /\ file.meta[p[2]].type = paxFloat
          /\ imageOf(p[1]) = {} /\ imageOf(p[2]) # {}

\* the positions of a buffer where a line starts
lineStarts(b) == {1} \cup { p + 1 : p \in { q \in 1..Len(b) : b[q] = LF } }

\* where the first line that starts with tag starts, Len(b) + 1 if none does
tagPos(b, tag) ==
    LET P == { p \in lineStarts(b) : matches(b, p, tag) }
    IN  IF P = {} THEN Len(b) + 1 ELSE CHOOSE p \in P : \A q \in P : p <= q

\* the header region of position p: the number of the lines BYTES_PER_VALUE,
\* VALUES_PER_ELEMENT and the two dimension lines before it (LOC_AFTER_TAG = 0
\* ... LOC_AFTER_STR1 = 4)
regionOf(b, p) ==
    Cardinality({ t \in {BPV_TAG, VPE_TAG, DIM1_TAG, DIM2_TAG} : tagPos(b, t) < p })

\* line is a line of the header of b and lies in region L
inRegion(b, line, L) ==
    \E p \in lineStarts(b) :
       /\ p > 1 /\ p < tagPos(b, DATALEN_TAG)
       /\ p + Len(line) - 1 <= Len(b)
       /\ SubSeq(b, p, p + Len(line) - 1) = line
       /\ regionOf(b, p) = L

locations == LOC_AFTER_TAG..LOC_AFTER_STR1

\* C6: location preservation: a comment or metadata line that appears in
\* header region L is stored by import with location L, and writeToBuffer
\* writes it back into region L
C6_LocationPreserved ==
    /\ roundTripped =>
          \A k \in DOMAIN file.meta : \A L \in locations :
             inRegion(outBuf, metaLine(k, file.meta[k]), L) =>
                \E j \in imageOf(k) : dest.meta[j].loc = L
    /\ reencoded =>
          \A k \in DOMAIN file.meta : \A L \in locations :
             inRegion(outBuf, metaLine(k, file.meta[k]), L) =>
                \E j \in imageOf(k) : inRegion(outBuf2, metaLine(j, dest.meta[j]), L)

\* the line of the double "e" lies after the first dimension line in the
\* buffer imported and after the type line in the buffer written from the
\* imported file, which holds the same value
C6_Moved ==
    /\ reencoded
    /\ Key_e \in DOMAIN file.meta /\ Key_e \in DOMAIN dest.meta
    /\ dest.meta[Key_e].s = file.meta[Key_e].s
    /\ inRegion(outBuf, metaLine(Key_e, file.meta[Key_e]), LOC_AFTER_SEQ)
    /\ dest.meta[Key_e].loc = LOC_AFTER_TAG
    /\ inRegion(outBuf2, metaLine(Key_e, dest.meta[Key_e]), LOC_AFTER_TAG)
    /\ ~inRegion(outBuf2, metaLine(Key_e, dest.meta[Key_e]), LOC_AFTER_SEQ)

\* the number on the first line of b that starts with tag
lineValue(b, tag) == getUint32(b, tagPos(b, tag), TRUE, FALSE).val

\* the DATA_LENGTH, BYTES_PER_VALUE and VALUES_PER_ELEMENT lines of b agree
\* with the registry entry of the type code on its type line and with its
\* dimension lines
shapeConsistent(b) ==
    LET t == validatePaxTag(b, 1).type
    IN  /\ lineValue(b, BPV_TAG) = getBPV(t)
        /\ lineValue(b, VPE_TAG) = getVPE(t)
        /\ lineValue(b, DATALEN_TAG)
             = lineValue(b, DIM1_TAG) * lineValue(b, DIM2_TAG) * getBPV(t) * getVPE(t)

\* C7: shape consistency: the output of writeToBuffer, for a file from a
\* constructor or from a successful import (also one into a template type other
\* than the type code of the stream), has DATA_LENGTH = product(dims) * bpv(t)
\* * vpe(t) and the BYTES_PER_VALUE and VALUES_PER_ELEMENT of t, the type code
\* on its own type line
C7_ShapeConsistent ==
    /\ pc = "written" /\ origin = "written" => shapeConsistent(outBuf)
    /\ pc = "rewritten" /\ fault = "none" => shapeConsistent(outBuf2)

\* a PAX_UCHAR stream imported into a float raster file is written with the
\* type code of PAX_UCHAR and the BYTES_PER_VALUE and DATA_LENGTH of PAX_FLOAT
C7_Mismatch ==
    /\ pc = "rewritten" /\ fault = "none" /\ origin = "written"
    /\ file.E = ePAX_UCHAR /\ dest.E = ePAX_FLOAT
    /\ validatePaxTag(outBuf2, 1).type = ePAX_UCHAR
    /\ lineValue(outBuf2, BPV_TAG) = 4
    /\ lineValue(outBuf2, DIM1_TAG) = 2 /\ lineValue(outBuf2, DIM2_TAG) = 1
    /\ lineValue(outBuf2, DATALEN_TAG) = 8

\* dl = d1 * d2 * e over the integers, for e > 0, tested by division so that
\* no product is formed
isProduct(dl, d1, d2, e) ==
    IF d1 = 0 \/ d2 = 0 THEN dl = 0
    ELSE dl % e = 0 /\ (dl \div e) % d1 = 0 /\ (dl \div e) \div d1 = d2

\* a crafted header that shape validation has to refuse
invalidShape(h) ==
    \/ h.bpv # getBPV(h.type)
    \/ h.vpe # getVPE(h.type)
    \/ ~isProduct(h.dataLen, h.dim1, h.dim2, getBPV(h.type) * getVPE(h.type))

\* the import of a crafted stream with all structural lines has returned
craftedImported ==
    /\ pc = "imported" /\ origin = "crafted" /\ hdr # ShortHdr
    /\ fault = "none"

\* C8: shape validation: import fails for every header whose BYTES_PER_VALUE
\* or VALUES_PER_ELEMENT differs from the registry entry of the declared type
\* or whose DATA_LENGTH differs from the mathematical product dims[0] * dims[1]
\* * bpv * vpe, also when that product exceeds 32 bits
C8_ShapeValidated ==
    craftedImported /\ invalidShape(hdr) => ret # PAX_OK

\* a 65536 x 65536 PAX_UCHAR header with DATA_LENGTH 0 is accepted
C8_WrapAccepted ==
    /\ craftedImported /\ ret = PAX_OK
    /\ hdr = [type |-> ePAX_UCHAR, bpv |-> 1, vpe |-> 1, dim1 |-> 65536, dim2 |-> 65536,
              dataLen |-> 0]
    /\ dest.numSequential = 65536 /\ dest.numStrided = 65536 /\ dest.numValues = 0

\* the import of a written buffer that lost bytes of its raster has returned,
\* without reading outside the buffer
truncatedImported ==
    /\ pc = "imported" /\ origin = "truncated"
    /\ dest.E = file.E /\ fault = "none"

\* C9: truncated payload: when the header is valid but fewer than DATA_LENGTH
\* bytes follow the DATA_LENGTH line, import returns an error, and not success
\* with a raster that was not copied from the stream
C9_TruncatedRefused ==
    truncatedImported => ret # PAX_OK

\* the import of a stream whose raster "AB" lost its last byte returns PAX_OK
\* and leaves a raster of two zero bytes
C9_TruncatedAccepted ==
    /\ truncatedImported /\ ret = PAX_OK
    /\ file.buf = <<65, 66>>
    /\ Len(outBuf) = Len(writeToBuffer(file, CHOOSE mv \in getMetaVecs(file) : TRUE, 0)) - 1
    /\ dest.numValues = 2
    /\ dest.buf = <<0, 0>>

\* C10: minimum length: every decode entry point (import of a file, of a
\* paxBufPtr, of a raw buffer) rejects an input shorter than MIN_PAX_LENGTH
\* bytes with an error
C10_ShortRejected ==
    pc = "imported" /\ Len(outBuf) < MIN_PAX_LENGTH /\ fault = "none" => ret # PAX_OK

\* import of a raw buffer returns PAX_OK for a PAX_META_ONLY stream of 107 bytes
C10_ShortAccepted ==
    /\ pc = "imported" /\ fault = "none"
    /\ hdr = ShortHdr /\ Len(outBuf) = 107
    /\ ret = PAX_OK
    /\ dest.dataType = ePAX_META_ONLY

(***************************************************************************)
(* Import of a stream the caller edited.  The caller builds and writes a   *)
(* file as before, changes the written bytes, and a new rasterFile<E>      *)
(* imports the result.  clean keeps the bytes before the change.           *)
(***************************************************************************)
\* how many adds the file of an edited stream has seen
MaxEditAdds == 2

\* "FOO_BAR : 42" and "@foo", each with its line feed
UnknownLines ==
    { <<70, 79, 79, 95, 66, 65, 82, SPACE, COLON, SPACE, 52, 50, LF>>,
      <<ATSIGN, 102, 111, 111, LF>> }

\* where the lines after the type line start, up to the DATA_LENGTH line
headerLineStarts(b) ==
    { p \in lineStarts(b) : p > 1 /\ p <= tagPos(b, DATALEN_TAG) }

insert(b, p, line) == SubSeq(b, 1, p - 1) \o line \o SubSeq(b, p, Len(b))

\* the caller puts a line that is no comment, no metadata and no tag line
\* between two lines of the header
InjectUnknown ==
    /\ pc = "written" /\ origin = "written" /\ adds(file) <= MaxEditAdds
    /\ \E line \in UnknownLines : \E p \in headerLineStarts(outBuf) :
          outBuf' = insert(outBuf, p, line) /\ edit' = line
    /\ clean' = outBuf
    /\ origin' = "unknown line"
    /\ UNCHANGED <<file, dest, ret, fault, hdr, outBuf2, pc, garbage>>
    /\ UNCHANGED <<rasterVars, multiVars, previewVars, arrayVars, loopVars>>

\* rasterFile<E> d; d.import(buf, len) of the edited stream
ImportEdited ==
    /\ pc = "written" /\ clean # << >>
    /\ \E u \in UninitReads :
          /\ \E r \in {import(outBuf, init(file.E, 0, 0, << >>), u[1], u[2])} :
                dest' = r.file /\ ret' = r.ret /\ fault' = r.fault
          /\ garbage' = u
    /\ pc' = "imported"
    /\ UNCHANGED <<file, outBuf, origin, hdr, outBuf2, clean, edit>>
    /\ UNCHANGED <<rasterVars, multiVars, previewVars, arrayVars, loopVars>>

\* what the same import gives for the stream before the edit
cleanImport == import(clean, init(file.E, 0, 0, << >>), garbage[1], garbage[2])

\* import succeeded and decoded what the import of the clean stream decodes
sameAsClean ==
    /\ ret = PAX_OK /\ fault = "none"
    /\ dest.dataType = cleanImport.file.dataType
    /\ dest.numSequential = cleanImport.file.numSequential
    /\ dest.numStrided = cleanImport.file.numStrided
    /\ dest.buf = cleanImport.file.buf
    /\ dest.meta = cleanImport.file.meta

editedImported(kind) ==
    /\ pc = "imported" /\ origin = kind
    /\ cleanImport.ret = PAX_OK /\ cleanImport.fault = "none"

\* C11: a line that is neither a comment nor a tag line, put between the type
\* line and DATA_LENGTH of a valid stream, is dropped: import succeeds and the
\* type, the dimensions, the raster and the metadata are those of the stream
\* without the line.
C11_UnknownDropped == editedImported("unknown line") => sameAsClean

\* the line "@foo" went in and import never returns
C11_AtLineHangs ==
    /\ editedImported("unknown line")
    /\ \E p \in lineStarts(outBuf) : At(outBuf, p) = ATSIGN
    /\ fault = "hang"

\* "## [bogus] x = 1" and "## [q]", each with its line feed
BadMetaLines ==
    { <<HASH, HASH, SPACE, LBRACKET, 98, 111, 103, 117, 115, RBRACKET, SPACE, 120,
        SPACE, EQUALS, SPACE, 49, LF>>,
      <<HASH, HASH, SPACE, LBRACKET, 113, RBRACKET, LF>> }

\* the caller puts a metadata line with a type tag that names no type between
\* two lines of the header
InjectBadMeta ==
    /\ pc = "written" /\ origin = "written" /\ adds(file) <= MaxEditAdds
    /\ \E line \in BadMetaLines : \E p \in headerLineStarts(outBuf) :
          outBuf' = insert(outBuf, p, line) /\ edit' = line
    /\ clean' = outBuf
    /\ origin' = "bad metadata"
    /\ UNCHANGED <<file, dest, ret, fault, hdr, outBuf2, pc, garbage>>
    /\ UNCHANGED <<rasterVars, multiVars, previewVars, arrayVars, loopVars>>

\* C12: a "##" line with an unrecognised type tag is skipped: import succeeds
\* with the model of the stream without the line, and the metadata holds no
\* entry with an empty name, an invalid type or an unknown location.
C12_BadMetaSkipped ==
    editedImported("bad metadata") =>
        /\ sameAsClean
        /\ \A k \in DOMAIN dest.meta :
              /\ k # << >>
              /\ dest.meta[k].type # paxInvalid
              /\ dest.meta[k].loc # LOC_UNKNOWN

\* the line "## [q]" went in: the entry of the line is in the map, under the
\* empty name, and getMetaVecs throws
C12_BadMetaStored ==
    /\ editedImported("bad metadata")
    /\ fault = "throw" /\ ret # PAX_OK
    /\ << >> \in DOMAIN dest.meta
    /\ dest.meta[<< >>].type = paxInvalid /\ dest.meta[<< >>].loc = LOC_UNKNOWN

(***************************************************************************)
(* The raster accessors.  A call returns a reference: the model keeps the  *)
(* storage the reference designates, the position of its first byte in it  *)
(* and the number of bytes the caller reads or writes through it.          *)
(***************************************************************************)
MaxCoord == 3

\* the scalar types of the accessors the model calls, by the name of the accessor
Accessors == {"ucharVal", "floatVal", "doubleVal"}

sizeofT(T) ==
    CASE T = "ucharVal" -> 1
      [] T = "floatVal" -> 4
      [] T = "doubleVal" -> 8

\* the accessor of the scalar a raster of type E holds
accessorOf(E) ==
    CASE E = ePAX_UCHAR -> "ucharVal"
      [] E = ePAX_FLOAT -> "floatVal"
      [] OTHER -> "none"

JUNK_SIZE == 32

\* value<T> with the strided dimension the fast one
value_strided(f, T, x, y) ==
    IF f.buf = << >> \/ x >= f.numSequential \/ y >= f.numStrided
    THEN [target |-> "junk", offset |-> 0, size |-> sizeofT(T)]
    ELSE [target |-> "raster", offset |-> (y + x * f.numStrided) * sizeofT(T),
          size |-> sizeofT(T)]

\* value<T>(x, y): buf() is NULL when the file holds no buffer
value(f, T, x, y) ==
    IF f.buf = << >> \/ x >= f.numSequential \/ y >= f.numStrided
    THEN [target |-> "junk", offset |-> 0, size |-> sizeofT(T)]
    ELSE LET index == x + y * f.numSequential   \* 64 bits: no wrap at these sizes
         IN  [target |-> "raster", offset |-> index * sizeofT(T), size |-> sizeofT(T)]

ValXY(f, T, x, y) == value(f, T, x, y)
ValRC(f, T, r, c) == value(f, T, c, r)

\* the files whose rasters the accessors are called on: two rasters and a
\* default-constructed file
RasterConstructions ==
    { <<ePAX_UCHAR, 3, 2, <<65, 66, 67, 68, 69, 70>> >>,
      <<ePAX_FLOAT, 2, 2, <<0, 0, 128, 63, 0, 0, 0, 64, 0, 0, 64, 64, 0, 0, 128, 64>> >>,
      <<ePAX_FLOAT, 0, 0, << >> >> }

InitRaster ==
    /\ \E c \in RasterConstructions : file = init(c[1], c[2], c[3], c[4])
    /\ outBuf = << >> /\ origin = "none" /\ dest = init(ePAX_UCHAR, 0, 0, << >>)
    /\ ret = PAX_OK /\ fault = "none" /\ hdr = NoHdr /\ outBuf2 = << >> /\ pc = "build"
    /\ clean = << >> /\ garbage = <<0, FALSE>> /\ edit = << >>
    /\ acc = << >> /\ files = << >> /\ dests = << >> /\ pre = << >>
    /\ status = PAX_OK /\ got = << >> /\ rd = << >> /\ ck = << >>

CallValXY ==
    /\ \E T \in Accessors, x \in 0..MaxCoord, y \in 0..MaxCoord :
           acc' = [style |-> "XY", T |-> T, x |-> x, y |-> y, ref |-> ValXY(file, T, x, y)]
    /\ UNCHANGED <<file, outBuf, origin, dest, ret, fault, hdr, outBuf2, pc>>
    /\ UNCHANGED <<editVars, multiVars, previewVars, arrayVars, loopVars>>

CallValRC ==
    /\ \E T \in Accessors, r \in 0..MaxCoord, c \in 0..MaxCoord :
           acc' = [style |-> "RC", T |-> T, x |-> c, y |-> r, ref |-> ValRC(file, T, r, c)]
    /\ UNCHANGED <<file, outBuf, origin, dest, ret, fault, hdr, outBuf2, pc>>
    /\ UNCHANGED <<editVars, multiVars, previewVars, arrayVars, loopVars>>

\* the bytes of element k of the raster of f
elementBytes(f, k) ==
    LET es == getBPV(f.E) * getVPE(f.E)
    IN  (k * es + 1)..((k + 1) * es)

\* the bytes a reference designates
refBytes(r) == (r.offset + 1)..(r.offset + r.size)

called == acc # << >>
inRange == called /\ acc.x < file.numSequential /\ acc.y < file.numStrided
compatible == called /\ acc.T = accessorOf(file.E)

\* C13: an accessor of the raster's scalar type, called with x below dims[0]
\* and y below dims[1] (for the RC accessor: x = c and y = r), returns a
\* reference to the element at flat position x + y * dims[0] of the raster
C13_RasterAddressing ==
    (inRange /\ compatible) =>
        /\ acc.ref.target = "raster"
        /\ refBytes(acc.ref) = elementBytes(file, acc.x + acc.y * file.numSequential)
        /\ refBytes(acc.ref) \subseteq DOMAIN file.buf

\* floatValRC(1, 0) of the 2 x 2 float raster was called: it designates the
\* third element, as the test of the library expects
C13_RowColumnCalled ==
    /\ inRange /\ compatible
    /\ acc.style = "RC" /\ acc.T = "floatVal" /\ acc.x = 0 /\ acc.y = 1
    /\ acc.ref.target = "raster" /\ acc.ref.offset = 8

\* the calls the accessors are to refuse
refused == called /\ (~inRange \/ file.buf = << >> \/ ~compatible)

\* C14: an accessor called with x >= dims[0] or y >= dims[1], on a file with
\* no raster, or with a scalar type that is not the raster's returns no
\* reference at all: neither one to the raster nor one to other storage
C14_AccessorFailure == refused => acc.ref.target = "none"

\* doubleValXY(1, 0) was called on the 3 x 2 uchar raster: the reference it
\* returned designates bytes past the end of the raster's six bytes
C14_BeyondRaster ==
    /\ refused /\ inRange /\ ~compatible
    /\ acc.ref.target = "raster"
    /\ ~(refBytes(acc.ref) \subseteq DOMAIN file.buf)

\* a refused call that the code detects hands out the file's _junk bytes
C14_JunkReturned ==
    (refused /\ (~inRange \/ file.buf = << >>)) =>
        (acc.ref.target = "junk" /\ refBytes(acc.ref) \subseteq 1..JUNK_SIZE)

(***************************************************************************)
(* Adds under a name the store already holds.                              *)
(***************************************************************************)
\* a step that adds under an existing name: the file changes, its names do not
overwriteStep ==
    /\ pc = "build" /\ pc' = "build"
    /\ file' # file
    /\ DOMAIN file'.meta = DOMAIN file.meta

changedNames == { k \in DOMAIN file.meta : file'.meta[k] # file.meta[k] }

\* C15 as stated: an add under an existing name keeps the entry's location and
\* index, and increments no counter
C15_OverwriteKeepsSlot ==
    [][overwriteStep =>
         /\ \A k \in DOMAIN file.meta :
                /\ file'.meta[k].loc = file.meta[k].loc
                /\ file'.meta[k].index = file.meta[k].index
         /\ file'.metaLocCount = file.metaLocCount]_vars

\* C15: an add under an existing name replaces the whole entry of that name:
\* the entry gets the location of the call and that location's counter as its
\* index, the counter is incremented by one, and the other entries and
\* counters are as before
C15_OverwriteTakesNewSlot ==
    [][overwriteStep =>
         \E k \in DOMAIN file.meta :
             /\ changedNames = {k}
             /\ file'.meta[k].loc = file'.metaLoc
             /\ file'.meta[k].index = file.metaLocCount[file'.metaLoc]
             /\ file'.metaLocCount =
                    [file.metaLocCount EXCEPT ![file'.metaLoc] = @ + 1]]_vars

\* "pi" was added twice and nothing else: the one entry of the store has
\* index 1, and the counter of its location stands at 2
C15_Overwritten ==
    /\ pc = "build"
    /\ DOMAIN file.meta = {Key_pi}
    /\ adds(file) = 2
    /\ file.meta[Key_pi].type = paxDouble
    /\ file.meta[Key_pi].index = 1
    /\ file.metaLocCount[file.meta[Key_pi].loc] = 2

(***************************************************************************)
(* The layout of the header writeToBuffer writes.                          *)
(***************************************************************************)
RECURSIVE linesBetween(_, _, _)
\* the lines of b that start at p or later and before q, in order
linesBetween(b, p, q) ==
    IF p >= q \/ Past(b, p) THEN << >>
    ELSE (CHOOSE only \in {(
             <<SubSeq(b, p, IF Past(b, lf) THEN Len(b) ELSE lf)>>
             \o linesBetween(b, lf + 1, q)
    ) : lf \in {strchrLF(b, p)}} : TRUE)

\* where the structural lines of b start: the type line, BYTES_PER_VALUE,
\* VALUES_PER_ELEMENT, the two dimension lines and DATA_LENGTH
structuralStarts(b) ==
    <<1, tagPos(b, BPV_TAG), tagPos(b, VPE_TAG), tagPos(b, DIM1_TAG),
      tagPos(b, DIM2_TAG), tagPos(b, DATALEN_TAG)>>

\* the entry of location loc that has exactly i entries of loc below it in index
entryOfRank(f, loc, i) ==
    CHOOSE k \in keysAt(f, loc) :
        Cardinality({ k2 \in keysAt(f, loc) : f.meta[k2].index < f.meta[k].index }) = i

\* the lines of the entries of location loc, in ascending index order
expectedLines(f, loc) ==
    [i \in 1..Cardinality(keysAt(f, loc)) |->
        metaLine(entryOfRank(f, loc, i - 1), f.meta[entryOfRank(f, loc, i - 1)])]

writtenOut == pc = "written" /\ origin = "written"

\* C16: the buffer writeToBuffer returns starts with the type line, has the
\* lines BYTES_PER_VALUE, VALUES_PER_ELEMENT, ELEMENTS_IN_SEQUENTIAL_DIMENSION,
\* ELEMENTS_IN_STRIDED_DIMENSION and DATA_LENGTH in this order, and the lines
\* between the structural line that opens region L and the next structural
\* line are the lines of the stored entries of location L, each once, in
\* ascending index order
C16_EncodeLayout ==
    writtenOut =>
        LET s == structuralStarts(outBuf)
        IN  /\ matches(outBuf, 1, PAX_TAG)
            /\ \A i \in 1..5 : s[i] < s[i + 1]
            /\ s[6] <= Len(outBuf)
            /\ \A loc \in 0..(LOC_COUNT - 1) :
                   linesBetween(outBuf, skipLine(outBuf, s[loc + 1]), s[loc + 2])
                       = expectedLines(file, loc)

\* a file with two entries added at AFTER_BPV and then one at AFTER_VPE was written
C16_ThreeEntriesWritten ==
    /\ writtenOut
    /\ Cardinality(keysAt(file, LOC_AFTER_BPV)) = 2
    /\ Cardinality(keysAt(file, LOC_AFTER_VPE)) = 1
    /\ file.metaLoc = LOC_AFTER_VPE

(***************************************************************************)
(* Comment and string lines at the limit of the text an entry holds.       *)
(***************************************************************************)
\* n bytes of text: "abc...zabc..."
textOfLength(n) == [i \in 1..n |-> 97 + ((i - 1) % 26)]

\* the lengths around the limit
LimitLengths ==
    { PAX_MAX_METADATA_STRING_LENGTH - 2, PAX_MAX_METADATA_STRING_LENGTH - 1,
      PAX_MAX_METADATA_STRING_LENGTH }

\* what precedes the text of a line: "#", "# ", "## [string]   k =" and
\* "## [string]   k = "
TextLineHeads ==
    { <<HASH>>, <<HASH, SPACE>>,
      <<HASH, HASH, SPACE, LBRACKET, 115, 116, 114, 105, 110, 103, RBRACKET,
        SPACE, SPACE, SPACE, 107, SPACE, EQUALS>>,
      <<HASH, HASH, SPACE, LBRACKET, 115, 116, 114, 105, 110, 103, RBRACKET,
        SPACE, SPACE, SPACE, 107, SPACE, EQUALS, SPACE>> }

\* the caller puts a comment or string line with a long text after the type line
InjectLongText ==
    /\ pc = "written" /\ origin = "written" /\ adds(file) <= MaxEditAdds
    /\ \E head \in TextLineHeads : \E n \in LimitLengths :
          LET line == head \o textOfLength(n) \o <<LF>>
          IN  /\ outBuf' = insert(outBuf, skipLine(outBuf, 1), line)
              /\ edit' = line
    /\ clean' = outBuf
    /\ origin' = "long text"
    /\ UNCHANGED <<file, dest, ret, fault, hdr, outBuf2, pc, garbage>>
    /\ UNCHANGED <<rasterVars, multiVars, previewVars, arrayVars, loopVars>>

\* the text of the line the caller put in: what follows the head of the line,
\* without the line feed
editText ==
    LET heads == { h \in TextLineHeads :
                       Len(h) < Len(edit) /\ SubSeq(edit, 1, Len(h)) = h }
        head == CHOOSE h \in heads : \A g \in heads : Len(g) <= Len(h)
    IN  SubSeq(edit, Len(head) + 1, Len(edit) - 1)

\* the first 255 bytes of t
capped(t) ==
    SubSeq(t, 1, IF Len(t) >= PAX_MAX_METADATA_STRING_LENGTH
                 THEN PAX_MAX_METADATA_STRING_LENGTH - 1 ELSE Len(t))

\* C17: a comment line or a string metadata line decodes without error
\* whatever the length of its text; the entry holds the text when it has at
\* most 255 bytes and its first 255 bytes otherwise, whether or not a leading
\* space was stripped
C17_MetadataCap ==
    editedImported("long text") =>
        /\ ret = PAX_OK /\ fault = "none"
        /\ \E k \in DOMAIN dest.meta :
               /\ dest.meta[k].type \in {paxComment, paxString}
               /\ dest.meta[k].s = capped(editText)

\* the line "# " followed by 255 bytes of text was decoded: the entry holds
\* 254 bytes of it
C17_LastByteLost ==
    /\ editedImported("long text")
    /\ ret = PAX_OK /\ fault = "none"
    /\ Len(editText) = PAX_MAX_METADATA_STRING_LENGTH - 1
    /\ \E k \in DOMAIN dest.meta :
           /\ dest.meta[k].type = paxComment
           /\ dest.meta[k].stripped
           /\ dest.meta[k].s = SubSeq(editText, 1, PAX_MAX_METADATA_STRING_LENGTH - 2)

(***************************************************************************)
(* Tags and keywords in the other case.                                    *)
(***************************************************************************)
otherCase(c) ==
    IF c >= 65 /\ c <= 90 THEN c + 32
    ELSE IF c >= 97 /\ c <= 122 THEN c - 32
    ELSE c

\* b with the letters of the n bytes at p in the other case
swapCase(b, p, n) == [i \in 1..Len(b) |-> IF i >= p /\ i < p + n THEN otherCase(b[i]) ELSE b[i]]

\* where the first byte c of b at or after p is, Len(b) + 1 if there is none
firstAt(b, p, c) ==
    LET S == { q \in p..Len(b) : b[q] = c }
    IN  IF S = {} THEN Len(b) + 1 ELSE CHOOSE q \in S : \A r \in S : q <= r

\* the tags and keywords of the header of b, as <<position, length>>: the PAX
\* tag, the version letter, the structural tags, DATA_LENGTH and the type tag
\* of every "## [" line
tagSpans(b) ==
    { <<1, Len(PAX_TAG)>>, <<firstAt(b, 1, 118), 1>> }
    \cup { <<tagPos(b, t), Len(t)>> : t \in {BPV_TAG, VPE_TAG, DIM1_TAG, DIM2_TAG, DATALEN_TAG} }
    \cup { <<p + 4, firstAt(b, p, RBRACKET) - (p + 4)>> :
             p \in { q \in headerLineStarts(b) :
                       SubSeq(b, q, q + 3) = <<HASH, HASH, SPACE, LBRACKET>> } }

\* the caller writes one tag or keyword of the stream in the other case
InjectCase ==
    /\ pc = "written" /\ origin = "written" /\ adds(file) <= MaxEditAdds
    /\ \E span \in tagSpans(outBuf) :
          /\ outBuf' = swapCase(outBuf, span[1], span[2])
          /\ edit' = SubSeq(outBuf, span[1], span[1] + span[2] - 1)
    /\ clean' = outBuf
    /\ origin' = "case"
    /\ UNCHANGED <<file, dest, ret, fault, hdr, outBuf2, pc, garbage>>
    /\ UNCHANGED <<rasterVars, multiVars, previewVars, arrayVars, loopVars>>

\* C18: a valid stream with one of its tags or keywords written in the other
\* case imports as the stream itself does: same status, type, dimensions,
\* raster and metadata
C18_CaseInsensitive == editedImported("case") => sameAsClean

\* the stream whose type line starts with "pax" was imported: import failed
C18_LowerCasePaxRejected ==
    /\ editedImported("case")
    /\ edit = PAX_TAG
    /\ SubSeq(outBuf, 1, 3) = <<112, 97, 120>>
    /\ ret # PAX_OK

(***************************************************************************)
(* Several streams in one buffer: writeMultiple and importMultiple.        *)
(***************************************************************************)
MaxFiles == 2

\* the models writeMultiple is handed: rasters with and without metadata
MultiModels ==
    LET uchar2 == init(ePAX_UCHAR, 2, 1, <<65, 66>>)
        float1 == init(ePAX_FLOAT, 1, 1, <<0, 0, 192, 63>>)
    IN  { uchar2,
          float1,
          init(ePAX_UCHAR, 2, 1, <<SPACE, 65>>),
          init(ePAX_UCHAR, 3, 2, <<65, 66, 67, 68, 69, 70>>),
          addMetaValFloat(uchar2, Key_pi, Float_3_1416, LOC_UNKNOWN),
          addComment(float1, <<97>>, LOC_AFTER_BPV),
          addMetaValInt32(addComment(uchar2, <<99>>, LOC_AFTER_VPE), Key_n, -8, LOC_AFTER_TAG) }

RECURSIVE writeMultiple(_)
\* writeMultiple: the buffers of the files one after the other; one result for
\* each order getMetaVecs can give
writeMultiple(fs) ==
    IF fs = << >> THEN { << >> }
    ELSE { w \o rest :
             w \in { writeToBuffer(Head(fs), mv, fill) :
                       mv \in getMetaVecs(Head(fs)), fill \in fillsOf(Head(fs)) },
             rest \in writeMultiple(Tail(fs)) }

RECURSIVE importMultiple(_, _, _, _)
\* importMultiple(types, bufPtr) from offset off on: for each type the file
\* baseImport returns, and the offset it was handed
importMultiple(types, b, off, u) ==
    IF types = << >> THEN << >>
    ELSE (CHOOSE only \in {(
                 <<[file |-> r.file, fault |-> r.fault, at |-> off]>>
                 \o importMultiple(Tail(types), b, off + r.file.importedLength, u)
    ) : r \in {import(SubSeq(b, off + 1, Len(b)), init(Head(types), 0, 0, << >>), u[1], u[2])}} : TRUE)

InitMulti ==
    /\ \E n \in 1..MaxFiles : files \in [1..n -> MultiModels]
    /\ file = init(ePAX_UCHAR, 0, 0, << >>)
    /\ outBuf = << >> /\ origin = "none" /\ dest = init(ePAX_UCHAR, 0, 0, << >>)
    /\ ret = PAX_OK /\ fault = "none" /\ hdr = NoHdr /\ outBuf2 = << >> /\ pc = "build"
    /\ clean = << >> /\ garbage = <<0, FALSE>> /\ edit = << >>
    /\ acc = << >> /\ dests = << >> /\ pre = << >>
    /\ status = PAX_OK /\ got = << >> /\ rd = << >> /\ ck = << >>

WriteMultiple ==
    /\ pc = "build" /\ files # << >>
    /\ outBuf' \in writeMultiple(files)
    /\ origin' = "multiple"
    /\ pc' = "written"
    /\ UNCHANGED <<file, dest, ret, fault, hdr, outBuf2, files, dests>>
    /\ UNCHANGED <<editVars, rasterVars, previewVars, arrayVars, loopVars>>

ImportMultiple ==
    /\ pc = "written" /\ origin = "multiple"
    /\ \E u \in UninitReads :
          /\ dests' = importMultiple([i \in 1..Len(files) |-> files[i].E], outBuf, 0, u)
          /\ garbage' = u
    /\ pc' = "imported"
    /\ UNCHANGED <<file, outBuf, origin, dest, ret, fault, hdr, outBuf2, files>>
    /\ UNCHANGED <<clean, edit, rasterVars, previewVars, arrayVars, loopVars>>

\* the length of the buffer writeToBuffer returns for f
encodedLength(f) == Len(writeToBuffer(f, CHOOSE mv \in getMetaVecs(f) : TRUE, 0))

RECURSIVE sumOf(_, _)
\* g[1] + ... + g[n]
sumOf(g, n) == IF n = 0 THEN 0 ELSE sumOf(g, n - 1) + g[n]

multiImported == pc = "imported" /\ origin = "multiple"

\* C19: importMultiple of the buffer writeMultiple returns for m1..mn returns n
\* files; file i was decoded from the offset that is the sum of the encoded
\* lengths of m1..m(i-1), its importedLength is the length of
\* writeToBuffer(mi), and the imported lengths add up to the buffer length
C19_MultiStreamSplit ==
    multiImported =>
        LET n == Len(files)
            lengths == [i \in 1..n |-> encodedLength(files[i])]
            imported == [i \in 1..n |-> dests[i].file.importedLength]
        IN  /\ Len(dests) = n
            /\ \A i \in 1..n :
                   /\ dests[i].at = sumOf(lengths, i - 1)
                   /\ imported[i] = lengths[i]
            /\ sumOf(imported, n) = Len(outBuf)

\* a file whose raster starts with a space was written before another one:
\* the first import took one byte too many and the second decoded nothing
C19_SecondStreamLost ==
    /\ multiImported
    /\ Len(files) = 2 /\ Len(dests) = 2
    /\ files[1].buf = <<SPACE, 65>>
    /\ dests[1].file.importedLength = encodedLength(files[1]) + 1
    /\ dests[2].at = encodedLength(files[1]) + 1
    /\ dests[2].file.importedLength = 0
    /\ dests[2].file.numValues = 0

(***************************************************************************)
(* preview(paxBufPtr): the header of a buffer that may end anywhere.       *)
(***************************************************************************)
\* the offset preview truncates the reader to: that of the last line feed
\* after the first byte, 0 when there is none
lastLineFeed(b) ==
    LET S == { e \in 1..(Len(b) - 1) : b[e + 1] = LF }
    IN  IF S = {} THEN 0 ELSE CHOOSE e \in S : \A d \in S : d <= e

\* preview into f: [ret, file, fault].  ret is PAX_OK, PAX_FAIL or the offset
\* the reader reached.  A buffer without a line feed makes validatePaxTag
\* write through the null pointer strchr returns.
preview(b, f, idx0, uninit) ==
    IF \A i \in 1..Len(b) : b[i] # LF
    THEN [ret |-> PAX_FAIL, file |-> f, fault |-> "overrun"]
    ELSE (CHOOSE only \in {(
             [ret |-> IF h.ret = PAX_INVALID THEN h.pos - 1 ELSE h.ret,
              file |-> h.file, fault |-> h.fault]
    ) : h \in {importHeaderOf(b, lastLineFeed(b), f, idx0, uninit, TRUE)}} : TRUE)

\* the models whose streams are previewed
PreviewModels ==
    LET uchar2 == init(ePAX_UCHAR, 2, 1, <<65, 66>>)
    IN  { uchar2,
          init(ePAX_UCHAR, 2, 1, <<SPACE, 65>>),
          addMetaValFloat(uchar2, Key_pi, Float_3_1416, LOC_UNKNOWN),
          addMetaValInt32(addComment(uchar2, <<99>>, LOC_AFTER_VPE), Key_n, -8, LOC_AFTER_TAG) }

InitPreview ==
    /\ file \in PreviewModels
    /\ outBuf = << >> /\ origin = "none" /\ dest = init(ePAX_UCHAR, 0, 0, << >>)
    /\ ret = PAX_OK /\ fault = "none" /\ hdr = NoHdr /\ outBuf2 = << >> /\ pc = "build"
    /\ clean = << >> /\ garbage = <<0, FALSE>> /\ edit = << >>
    /\ acc = << >> /\ files = << >> /\ dests = << >> /\ pre = << >>
    /\ status = PAX_OK /\ got = << >> /\ rd = << >> /\ ck = << >>

\* the caller hands on a stream in which BYTES_PER_VALUE is not the one of the type
WrongBPV ==
    /\ pc = "written" /\ origin = "written" /\ pre = << >>
    /\ LET p == tagPos(outBuf, BPV_TAG) + Len(BPV_TAG) + 3
       IN  outBuf' = [outBuf EXCEPT ![p] = IF @ = 49 THEN 50 ELSE 49]
    /\ origin' = "wrong bpv"
    /\ UNCHANGED <<file, dest, ret, fault, hdr, outBuf2, pc, others>>

\* how far from a line feed the chunks the caller has read end
PreviewCuts == {-1, 0, 1, 6}

prefixLengths(b) ==
    { n \in 1..Len(b) : n = Len(b) \/ \E d \in PreviewCuts : n - d \in 1..Len(b) /\ b[n - d] = LF }

\* the caller previews the first n bytes of the stream, n larger than before
Preview ==
    /\ pc = "written"
    /\ \E n \in prefixLengths(outBuf) : \E u \in UninitReads :
          /\ IF pre = << >> THEN TRUE ELSE n > pre.n
          /\ LET r == preview(SubSeq(outBuf, 1, n), dest, u[1], u[2])
             IN  /\ pre' = [n |-> n, ret |-> r.ret, fault |-> r.fault]
                 /\ dest' = r.file
    /\ UNCHANGED <<file, outBuf, origin, ret, fault, hdr, outBuf2, pc>>
    /\ UNCHANGED <<editVars, rasterVars, multiVars, arrayVars, loopVars>>

\* preview returned a number of bytes
needsMore(r) == r # << >> /\ r.fault = "none" /\ r.ret > 0

\* the DATA_LENGTH line of the first n bytes of b is there to its line feed
headerComplete(b, n) ==
    LET p == tagPos(b, DATALEN_TAG)
    IN  p <= n /\ strchrLF(b, p) <= n

\* C20: when preview of a buffer returns a number of bytes k, preview of a
\* longer buffer that starts with the same bytes and also returns a number
\* returns at least k; and a number is returned only for a buffer that ends
\* before the end of its DATA_LENGTH line
C20_PreviewMonotone ==
    [][/\ (needsMore(pre) /\ needsMore(pre')) => pre'.ret >= pre.ret
       /\ needsMore(pre') => ~headerComplete(outBuf, pre'.n)]_vars

\* the first part alone: the numbers preview returns for growing buffers grow
C20_ConsumedGrows ==
    [][(needsMore(pre) /\ needsMore(pre')) => pre'.ret >= pre.ret]_vars

\* the whole stream with the wrong BYTES_PER_VALUE was previewed: preview
\* returned the length of the header
C20_WholeHeaderAsLength ==
    /\ origin = "wrong bpv"
    /\ needsMore(pre)
    /\ pre.n = Len(outBuf)
    /\ headerComplete(outBuf, pre.n)
    /\ pre.ret = strchrLF(outBuf, tagPos(outBuf, DATALEN_TAG))

(***************************************************************************)
(* Preview against import of the same stream.                              *)
(***************************************************************************)
\* the whole of a written stream was previewed and preview returned PAX_OK
previewedWhole ==
    /\ pre # << >> /\ origin = "written"
    /\ pre.n = Len(outBuf) /\ pre.fault = "none" /\ pre.ret = PAX_OK

\* what import of the stream gives a new model of the previewing type
importedOf(b, u) == import(b, init(ePAX_UCHAR, 0, 0, << >>), u[1], u[2])

\* C21: for every complete valid stream, preview gives the type, the
\* version, the dimensions and the metadata store (names, kinds, values,
\* locations, indexes) that import of the same stream gives, and the raster
\* alone is left empty
C21_PreviewEqualsDecode ==
    previewedWhole =>
        \A u \in UninitReads :
            LET r == importedOf(outBuf, u)
            IN  r.ret = PAX_OK /\ r.fault = "none" =>
                    /\ dest.dataType = r.file.dataType
                    /\ dest.version = r.file.version
                    /\ dest.numSequential = r.file.numSequential
                    /\ dest.numStrided = r.file.numStrided
                    /\ dest.meta = r.file.meta
                    /\ dest.buf = << >>

\* a stream with metadata was previewed whole: type, version and dimensions
\* are those of import, the store is empty although import fills it
C21_MetadataSkipped ==
    /\ previewedWhole
    /\ file.meta # << >>
    /\ dest.meta = << >> /\ dest.buf = << >>
    /\ \A u \in UninitReads :
          LET r == importedOf(outBuf, u)
          IN  /\ r.ret = PAX_OK /\ r.fault = "none"
              /\ r.file.meta # << >>
              /\ dest.dataType = r.file.dataType
              /\ dest.version = r.file.version
              /\ dest.numSequential = r.file.numSequential
              /\ dest.numStrided = r.file.numStrided

(***************************************************************************)
(* Streams with a structural line twice or not at all.                     *)
(***************************************************************************)
\* the line of b that starts at p, with its line feed
lineAt(b, p) == SubSeq(b, p, strchrLF(b, p))

\* b without the line that starts at p
removeLine(b, p) == SubSeq(b, 1, p - 1) \o SubSeq(b, strchrLF(b, p) + 1, Len(b))

\* the caller writes one of the lines before DATA_LENGTH a second time,
\* right after the first
DuplicateTag ==
    /\ pc = "written" /\ origin = "written" /\ adds(file) <= MaxEditAdds
    /\ \E tag \in {BPV_TAG, VPE_TAG, DIM1_TAG, DIM2_TAG} :
          LET p == tagPos(outBuf, tag)
          IN  /\ outBuf' = insert(outBuf, p, lineAt(outBuf, p))
              /\ edit' = tag
    /\ clean' = outBuf
    /\ origin' = "duplicate tag"
    /\ UNCHANGED <<file, dest, ret, fault, hdr, outBuf2, pc, garbage>>
    /\ UNCHANGED <<rasterVars, multiVars, previewVars, arrayVars, loopVars>>

\* the caller takes one of the structural lines out
RemoveTag ==
    /\ pc = "written" /\ origin = "written" /\ adds(file) <= MaxEditAdds
    /\ \E tag \in {BPV_TAG, VPE_TAG, DIM1_TAG, DIM2_TAG, DATALEN_TAG} :
          /\ outBuf' = removeLine(outBuf, tagPos(outBuf, tag))
          /\ edit' = tag
    /\ clean' = outBuf
    /\ origin' = "missing tag"
    /\ UNCHANGED <<file, dest, ret, fault, hdr, outBuf2, pc, garbage>>
    /\ UNCHANGED <<rasterVars, multiVars, previewVars, arrayVars, loopVars>>

\* C22: import fails unless the header holds exactly one BYTES_PER_VALUE
\* line, exactly one VALUES_PER_ELEMENT line, at least one dimension line
\* and exactly one DATA_LENGTH line: a stream with BYTES_PER_VALUE or
\* VALUES_PER_ELEMENT twice, or without one of them or without DATA_LENGTH,
\* is refused
C22_RequiredTags ==
    /\ (editedImported("duplicate tag") /\ edit \in {BPV_TAG, VPE_TAG}) => ret # PAX_OK
    /\ (editedImported("missing tag") /\ edit \in {BPV_TAG, VPE_TAG, DATALEN_TAG})
          => ret # PAX_OK

\* the part of C22 the code keeps: a stream without one of the structural
\* lines, or with a dimension line twice, is refused
C22_MissingRefused ==
    /\ editedImported("missing tag") => ret # PAX_OK
    /\ (editedImported("duplicate tag") /\ edit \in {DIM1_TAG, DIM2_TAG}) => ret # PAX_OK

\* BYTES_PER_VALUE went in twice and import succeeded with the model of the
\* stream that holds it once
C22_DuplicateAccepted ==
    /\ editedImported("duplicate tag")
    /\ edit = BPV_TAG
    /\ Cardinality({ p \in lineStarts(outBuf) : matches(outBuf, p, BPV_TAG) }) = 2
    /\ sameAsClean

(***************************************************************************)
(* The forms of the type line.                                             *)
(***************************************************************************)
\* "PAX<code>" followed by each combination of " : v1.00" and " : <name>"
TypeLines(E) ==
    LET head == PAX_TAG \o SignedDecimal(E)
        v == <<SPACE, COLON, SPACE, 118>> \o VersionText(PAX_VERSION)
        name == <<SPACE, COLON, SPACE>> \o getTypeName(E)
    IN  { head \o <<LF>>, head \o v \o <<LF>>, head \o name \o <<LF>>,
          head \o v \o name \o <<LF>> }

\* the caller writes the type line of the stream in one of its forms
ReplaceTypeLine ==
    /\ pc = "written" /\ origin = "written" /\ adds(file) <= MaxEditAdds
    /\ \E line \in TypeLines(file.E) :
          /\ outBuf' = insert(removeLine(outBuf, 1), 1, line)
          /\ edit' = line
    /\ clean' = outBuf
    /\ origin' = "type line"
    /\ UNCHANGED <<file, dest, ret, fault, hdr, outBuf2, pc, garbage>>
    /\ UNCHANGED <<rasterVars, multiVars, previewVars, arrayVars, loopVars>>

\* the type line the caller wrote holds "v<float>" / holds a type name
versionGiven == \E i \in 1..Len(edit) : edit[i] = 118
nameGiven == \E i \in (Len(PAX_TAG) + 1)..Len(edit) : edit[i] = 80

\* C23: a type line "PAX<code>" followed by any combination of ": v<float>"
\* and ": <type-name>", none included, is accepted and takes exactly its one
\* line: the rest of the stream is decoded as before; without "v<float>" the
\* version of the imported model is 1.00
C23_TypeLine ==
    editedImported("type line") =>
        /\ sameAsClean
        /\ dest.version = IF versionGiven THEN cleanImport.file.version ELSE PAX_VERSION

\* what the code does for a type line that ends with a type name: accepted,
\* one line taken, the version 0.00 when none is given
C23_NamedTypeLine ==
    (editedImported("type line") /\ nameGiven) =>
        /\ sameAsClean
        /\ dest.version = IF versionGiven THEN cleanImport.file.version ELSE 0

\* "PAX<code> : <type-name>" was imported: the model is that of the stream,
\* its version is 0.00
C23_VersionZero ==
    /\ editedImported("type line")
    /\ nameGiven /\ ~versionGiven
    /\ sameAsClean
    /\ dest.version = 0

\* a type line without a type name: the search for the next delimiter goes
\* on into the following line, which is lost
C23_NextLineTaken ==
    (editedImported("type line") /\ ~nameGiven) => ~sameAsClean

(***************************************************************************)
(* Adds to a model that was imported, as basicWriteReadModify makes them.  *)
(***************************************************************************)
\* how many adds the imported model sees
MaxReAdds == 2

Key_m == <<109>>

\* the adds made after import: a new name and the overwrite of the test.  edit
\* keeps the calls made.
ReAddInt32Calls == { <<Key_m, 5, LOC_AFTER_TAG>> }

ReAddDoubleCalls == { <<Key_pi, Double_pi, LOC_UNKNOWN>> }

ReAddCommentCalls == { <<(<<97>>), LOC_AFTER_TAG>>, <<(<<99>>), LOC_UNKNOWN>> }

ReAddMetaValInt32 ==
    /\ pc = "imported" /\ ret = PAX_OK /\ fault = "none" /\ Len(edit) < MaxReAdds
    /\ \E c \in ReAddInt32Calls : dest' = addMetaValInt32(dest, c[1], c[2], c[3]) /\ edit' = Append(edit, c)
    /\ UNCHANGED <<file, outBuf, origin, ret, fault, hdr, outBuf2, pc, clean, garbage>>
    /\ UNCHANGED <<rasterVars, multiVars, previewVars, arrayVars, loopVars>>

ReAddMetaValDouble ==
    /\ pc = "imported" /\ ret = PAX_OK /\ fault = "none" /\ Len(edit) < MaxReAdds
    /\ \E c \in ReAddDoubleCalls : dest' = addMetaValDouble(dest, c[1], c[2], c[3]) /\ edit' = Append(edit, c)
    /\ UNCHANGED <<file, outBuf, origin, ret, fault, hdr, outBuf2, pc, clean, garbage>>
    /\ UNCHANGED <<rasterVars, multiVars, previewVars, arrayVars, loopVars>>

ReAddComment ==
    /\ pc = "imported" /\ ret = PAX_OK /\ fault = "none" /\ Len(edit) < MaxReAdds
    /\ \E c \in ReAddCommentCalls : dest' = addComment(dest, c[1], c[2]) /\ edit' = Append(edit, c)
    /\ UNCHANGED <<file, outBuf, origin, ret, fault, hdr, outBuf2, pc, clean, garbage>>
    /\ UNCHANGED <<rasterVars, multiVars, previewVars, arrayVars, loopVars>>

\* the caller writes one of the "##" lines of the stream a second time, right
\* after the first: the stream holds a name twice
DuplicateMetaLine ==
    /\ pc = "written" /\ origin = "written"
    /\ \E p \in { q \in lineStarts(outBuf) : At(outBuf, q) = HASH /\ At(outBuf, q + 1) = HASH
                                            /\ q < tagPos(outBuf, DATALEN_TAG) } :
          outBuf' = insert(outBuf, p, lineAt(outBuf, p))
    /\ origin' = "duplicate name"
    /\ UNCHANGED <<file, dest, ret, fault, hdr, outBuf2, pc, others>>

\* g is f after one add: a name that is new in g has an index above that of
\* every entry f holds at its location, and no other entry of f has moved
indexRule(f, g) ==
    LET new == DOMAIN g.meta \ DOMAIN f.meta
        moved == { j \in DOMAIN f.meta :
                      \/ j \notin DOMAIN g.meta
                      \/ g.meta[j].loc # f.meta[j].loc
                      \/ g.meta[j].index # f.meta[j].index }
    IN  /\ \A k \in new : \A j \in DOMAIN f.meta :
              f.meta[j].loc = g.meta[k].loc => g.meta[k].index > f.meta[j].index
        /\ IF new = {} THEN Cardinality(moved) <= 1 ELSE moved = {}

\* C24: after any sequence of adds and imports, an entry added under a new
\* name at location L gets an index greater than the index of every entry
\* stored at L, and an add changes the location and the index of no entry
\* with another name
C24_IndexAssignment ==
    [][/\ (pc = "build" /\ pc' = "build") => indexRule(file, file')
       /\ (pc = "imported" /\ pc' = "imported") => indexRule(dest, dest')]_vars

\* the same for the adds to a model that was built and never imported
C24_IndexAssignmentBuilt ==
    [][(pc = "build" /\ pc' = "build") => indexRule(file, file')]_vars

\* "m" was added at LOC_AFTER_TAG to an imported model that holds "n" there:
\* the index of "m" is the number of entries import counted, that of "n" is
\* what the reader gave it, and is not below
C24_NewIndexNotGreater ==
    /\ pc = "imported" /\ origin = "written"
    /\ Key_m \in DOMAIN dest.meta /\ Key_n \in DOMAIN dest.meta
    /\ dest.meta[Key_m].loc = dest.meta[Key_n].loc
    /\ dest.meta[Key_m].index <= dest.meta[Key_n].index

\* the stream held the line of "n" twice: import gave "n" the index 1 and
\* counted one entry, and "m", added at the same location, has the index 1 too
C24_SameIndexTwice ==
    /\ pc = "imported" /\ origin = "duplicate name"
    /\ Key_m \in DOMAIN dest.meta /\ Key_n \in DOMAIN dest.meta
    /\ dest.meta[Key_m].loc = dest.meta[Key_n].loc
    /\ dest.meta[Key_m].index = 1 /\ dest.meta[Key_n].index = 1

(***************************************************************************)
(* The ways of adding a comment.                                           *)
(***************************************************************************)
\* addMeta(name, meta, loc): the entry gets the location and the next index;
\* a comment gets its comment name; the entry is stored under name
addMeta(f, name, meta, loc) ==
    LET l == addLoc(f, loc)
        index == f.metaLocCount[l]
    IN  storeMeta(f, name,
                  [meta EXCEPT !.loc = l, !.index = index,
                               !.name = IF meta.type = paxComment
                                        THEN getCommentName(l, index) ELSE @], l)

\* addComment(meta_t, loc)
addCommentMeta(f, meta, loc) == addMeta(f, << >>, meta, loc)

\* meta_t m; m.type = paxComment; strcpy(m.s, text); m.stripped = true
commentMeta(text) ==
    [type |-> paxComment, loc |-> LOC_UNKNOWN, index |-> 0, name |-> << >>,
     s |-> text, stripped |-> TRUE]

Key_k == <<107>>

AddCommentMeta ==
    /\ pc = "build" /\ adds(file) < MaxAdds
    /\ \E c \in CommentCalls : file' = addCommentMeta(file, commentMeta(c[1]), c[2])
    /\ Unchanged_rest

AddMetaOfComment ==
    /\ pc = "build" /\ adds(file) < MaxAdds
    /\ \E c \in CommentCalls : file' = addMeta(file, Key_k, commentMeta(c[1]), c[2])
    /\ Unchanged_rest

\* every comment of f is stored under the key made of its location and index
commentKeys(f) ==
    \A k \in DOMAIN f.meta :
        f.meta[k].type = paxComment => k = getCommentName(f.meta[k].loc, f.meta[k].index)

\* the comments of f
comments(f) == { k \in DOMAIN f.meta : f.meta[k].type = paxComment }

\* C25: in every store, each comment is stored under the key ";<loc>;<index>"
\* of its own location and index, whichever way it was added (addComment with
\* a text, addComment with a meta_t, addMeta with a comment, a comment line
\* read by import)
C25_CommentKeys ==
    /\ commentKeys(file)
    /\ (pc = "imported" /\ ret = PAX_OK /\ fault = "none") => commentKeys(dest)

\* the consequence C25 draws: the add of a comment replaces no earlier comment
C25_NoCommentReplaced ==
    [][(pc = "build" /\ pc' = "build") =>
          \A k \in comments(file) : k \in comments(file') /\ file'.meta[k] = file.meta[k]]_vars

\* what holds of the comments added with a text and of those import reads:
\* the key is the one of the location and index of the entry
C25_TextCommentKeys ==
    /\ \A k \in comments(file) : k \notin {<< >>, Key_k} =>
           k = getCommentName(file.meta[k].loc, file.meta[k].index)
    /\ (pc = "imported" /\ ret = PAX_OK /\ fault = "none") => commentKeys(dest)

\* addComment(meta_t) was called: the comment is stored under the empty key
C25_EmptyKey ==
    /\ << >> \in DOMAIN file.meta
    /\ file.meta[<< >>].type = paxComment
    /\ file.meta[<< >>].name = getCommentName(file.meta[<< >>].loc, file.meta[<< >>].index)
    /\ file.meta[<< >>].name # << >>

(***************************************************************************)
(* The length of the raster buffer.                                        *)
(***************************************************************************)
\* datalen(): getBPV(E) * getVPE(E) * _numValues, a product of uint32_t
\* returned as int32_t
datalen(f) == Int32OfWord(MulWord(Word(getBPV(f.E) * getVPE(f.E)), f.numValues))

\* the constructor calls with dimensions whose product passes 32 bits, and
\* rasterFile(0, 0)
LengthConstructions ==
    Constructions \cup
    { <<ePAX_UCHAR, 65536, 65536, << >> >>,
      <<ePAX_FLOAT, 1073741824, 1, << >> >>,
      <<ePAX_FLOAT, 65537, 65536, << >> >>,
      <<ePAX_UCHAR, 0, 0, << >> >> }

InitLength ==
    /\ \E c \in LengthConstructions : file = init(c[1], c[2], c[3], c[4])
    /\ outBuf = << >> /\ origin = "none" /\ dest = init(ePAX_UCHAR, 0, 0, << >>)
    /\ ret = PAX_OK /\ fault = "none" /\ hdr = NoHdr /\ outBuf2 = << >> /\ pc = "build"
    /\ clean = << >> /\ garbage = <<0, FALSE>> /\ edit = << >>
    /\ acc = << >> /\ files = << >> /\ dests = << >> /\ pre = << >>
    /\ status = PAX_OK /\ got = << >> /\ rd = << >> /\ ck = << >>

\* the buffer of f has the length product(dims) * bpv * vpe, taken over the
\* integers, and datalen() returns it
lengthOk(f) ==
    /\ isProduct(Len(f.buf), f.numSequential, f.numStrided, bpv(f) * vpe(f))
    /\ datalen(f) = Len(f.buf)

\* C26: in every state reached through the constructors, init and a
\* successful import, the model owns a raster buffer whose length is exactly
\* product(dims) * bpv * vpe, computed without wrap-around, and datalen()
\* returns that value, dimensions up to 2^32 - 1 included
C26_BufferLength ==
    /\ lengthOk(file)
    /\ (pc = "imported" /\ ret = PAX_OK /\ fault = "none") => lengthOk(dest)

\* the same for the models whose dimensions are at most MaxRaster and, after
\* import, whose type is the one of the stream
C26_SmallRasters ==
    LET small(f) == f.numSequential <= MaxRaster /\ f.numStrided <= MaxRaster
    IN  /\ small(file) => lengthOk(file)
        /\ (pc = "imported" /\ ret = PAX_OK /\ fault = "none" /\ small(dest)
               /\ dest.E = dest.dataType) => lengthOk(dest)

\* rasterFile<ePAX_UCHAR>(65536, 65536) was constructed: the dimensions are
\* kept, there is no buffer and datalen() is 0
C26_WrappedConstruction ==
    /\ file.E = ePAX_UCHAR
    /\ file.numSequential = 65536 /\ file.numStrided = 65536
    /\ file.buf = << >> /\ datalen(file) = 0

(***************************************************************************)
(* Array metadata and the indexed accessors.  An array entry keeps its     *)
(* dimensions in dims and its elements, first index fastest, in its        *)
(* buffer.  The accessors report through PaxStatic's status.               *)
(***************************************************************************)
PAX_ERROR == -12
PAX_WARN == -1
paxNumericStart == 1
paxNumericEnd == 10

\* the largest index component and the longest index vector the caller passes
MaxIndex == 2
MaxIndices == 3

\* setStatus(PAX_OK) when the status is PAX_WARN or better, and whether it was
paxNoError(st) ==
    LET noError == st >= PAX_ERROR + 1
    IN  [noError |-> noError, status |-> IF noError THEN PAX_OK ELSE st]

RECURSIVE product(_)
product(dims) == IF dims = << >> THEN 1 ELSE Head(dims) * product(Tail(dims))

\* initArray(type, dims, data) on a meta the constructor left with the type
\* paxInvalid: a non-numeric type or at most one element is no array
isArray(type, dims) ==
    ~(type < paxNumericStart \/ type > paxNumericEnd \/ 1 >= product(dims))

initArray(type, dims, data) ==
    IF isArray(type, dims)
    THEN [type |-> type, loc |-> LOC_UNKNOWN, index |-> 0, name |-> << >>,
          s |-> data, stripped |-> FALSE, dims |-> dims]
    ELSE [type |-> paxInvalid, loc |-> LOC_UNKNOWN, index |-> 0, name |-> << >>,
          s |-> << >>, stripped |-> FALSE, dims |-> << >>]

\* the status after meta_t m(type, dims, data) and the copies addMeta takes of
\* it: the refusal of a scalar is a warning, and clone logs an error when it
\* finds one
cloneStatus(type, dims, st) ==
    LET made == IF isArray(type, dims) THEN st ELSE PAX_WARN
    IN  IF paxNoError(made).noError THEN PAX_OK ELSE PAX_FAIL

RECURSIVE indexLoop(_, _, _, _, _)
indexLoop(dims, indices, i, index, mul) ==
    IF i > Len(indices) THEN [index |-> index, failed |-> FALSE]
    ELSE IF indices[i] >= dims[i] THEN [index |-> 0, failed |-> TRUE]
    ELSE indexLoop(dims, indices, i + 1, index + indices[i] * mul, mul * dims[i])

\* meta::getMetaArrayIndex(indices), and I(indices): the flattened index and
\* the status it leaves
getMetaArrayIndex(m, indices, st) ==
    IF Len(indices) > Len(m.dims)
    THEN [index |-> 0, status |-> PAX_FAIL]
    ELSE LET r == indexLoop(m.dims, indices, 1, 0, 1)
         IN  [index |-> r.index, status |-> IF r.failed THEN PAX_FAIL ELSE st]

\* fb[index] of an entry
fb(m, index) == SubSeq(m.s, 4 * index + 1, 4 * index + 4)

\* getMetaFloat(key, indices)
getMetaFloatAt(f, key, indices, st) ==
    IF key \notin DOMAIN f.meta
    THEN [val |-> Float_NaN, status |-> PAX_FAIL]
    ELSE IF f.meta[key].type = paxInvalid
    THEN [val |-> Float_NaN, status |-> PAX_FAIL]
    ELSE IF Len(f.meta[key].dims) # Len(indices)
    THEN [val |-> Float_NaN, status |-> PAX_FAIL]
    ELSE LET i == getMetaArrayIndex(f.meta[key], indices, st)
             n == paxNoError(i.status)
         IN  IF ~n.noError
             THEN [val |-> Float_NaN, status |-> n.status]
             ELSE [val |-> fb(f.meta[key], i.index), status |-> n.status]

\* the float 8 + i as the build stores it, 0 <= i <= 7
floatBytes(i) == <<0, 0, 16 * i, 65>>

RECURSIVE arrayData(_)
arrayData(n) == IF n = 0 THEN << >> ELSE arrayData(n - 1) \o floatBytes(n - 1)

Key_a == <<97>>

\* the arrays the caller adds: name, type, dims, location
ArrayCalls ==
    { <<Key_a, paxFloat, <<2, 3>>, LOC_UNKNOWN>>,
      <<Key_a, paxFloat, <<3>>, LOC_AFTER_BPV>>,
      <<Key_m, paxFloat, <<2, 2, 2>>, LOC_AFTER_TAG>>,
      <<Key_k, paxFloat, <<1>>, LOC_UNKNOWN>> }

IndexVectors == UNION { [1..n -> 0..MaxIndex] : n \in 0..MaxIndices }

\* meta_t m(type, dims, data); addMeta(name, m, loc)
AddArrayMeta ==
    /\ pc = "build" /\ adds(file) < MaxAdds
    /\ \E c \in ArrayCalls :
         /\ file' = addMeta(file, c[1],
                            initArray(c[2], c[3], arrayData(product(c[3]))), c[4])
         /\ status' = cloneStatus(c[2], c[3], status)
    /\ UNCHANGED <<outBuf, origin, dest, ret, fault, hdr, outBuf2, pc, got>>
    /\ UNCHANGED <<editVars, rasterVars, multiVars, previewVars, loopVars>>

\* getMetaRef()[key].I(indices)
GetMetaArrayIndex ==
    /\ pc = "build"
    /\ \E key \in DOMAIN file.meta, indices \in IndexVectors :
         LET r == getMetaArrayIndex(file.meta[key], indices, status)
         IN  /\ got' = [op |-> "I", key |-> key, indices |-> indices,
                        index |-> r.index, before |-> status]
             /\ status' = r.status
    /\ UNCHANGED <<file, outBuf, origin, dest, ret, fault, hdr, outBuf2, pc>>
    /\ UNCHANGED <<editVars, rasterVars, multiVars, previewVars, loopVars>>

\* getMetaFloat(key, indices), also for a name that was never added
GetMetaFloatAt ==
    /\ pc = "build"
    /\ \E key \in {Key_a, Key_m, Key_k, Key_e}, indices \in IndexVectors :
         LET r == getMetaFloatAt(file, key, indices, status)
         IN  /\ got' = [op |-> "getMetaFloat", key |-> key, indices |-> indices,
                        val |-> r.val, before |-> status]
             /\ status' = r.status
    /\ UNCHANGED <<file, outBuf, origin, dest, ret, fault, hdr, outBuf2, pc>>
    /\ UNCHANGED <<editVars, rasterVars, multiVars, previewVars, loopVars>>

\* PaxStatic::setStatus(PAX_OK) by the caller
SetStatusOk ==
    /\ pc = "build" /\ status # PAX_OK
    /\ status' = PAX_OK
    /\ UNCHANGED <<file, outBuf, origin, dest, ret, fault, hdr, outBuf2, pc, got>>
    /\ UNCHANGED <<editVars, rasterVars, multiVars, previewVars, loopVars>>

\* one model, as the calls on array metadata do not look at the raster
InitArray == Init /\ file = init(ePAX_UCHAR, 2, 1, <<65, 66>>)

\* the indices name an element of the entry: as many as dims, each below its dim
indicesInRange(m, indices) ==
    /\ Len(indices) <= Len(m.dims)
    /\ \A j \in 1..Len(indices) : indices[j] < m.dims[j]

RECURSIVE flat(_, _, _)
\* i0 + i1*d0 + i2*d0*d1 + ..., from component j on
flat(dims, indices, j) ==
    IF j > Len(indices) THEN 0
    ELSE indices[j] * product(SubSeq(dims, 1, j - 1)) + flat(dims, indices, j + 1)

\* a step that is a call of I(indices)
calledIndex == got' # got /\ got'.op = "I"

\* C27: getMetaArrayIndex returns i0 + i1*d0 + i2*d0*d1 + ... for indices in
\* range and leaves no failure status, and for indices out of range it leaves
\* the status PAX_FAIL, so that the status after the call tells a refusal from
\* the flat index 0
C27_FlatIndex ==
    [][calledIndex =>
         LET m == file.meta[got'.key]
         IN  IF indicesInRange(m, got'.indices)
             THEN /\ got'.index = flat(m.dims, got'.indices, 1)
                  /\ status' # PAX_FAIL
             ELSE status' = PAX_FAIL]_vars

\* the part that holds: the number returned for indices in range is the flat
\* index, the number returned for indices out of range is 0 and the status
\* after it PAX_FAIL, and a call in range leaves the status as it found it
C27_FlatIndexValue ==
    [][calledIndex =>
         LET m == file.meta[got'.key]
         IN  IF indicesInRange(m, got'.indices)
             THEN /\ got'.index = flat(m.dims, got'.indices, 1)
                  /\ status' = status
             ELSE got'.index = 0 /\ status' = PAX_FAIL]_vars

\* a call with all indices 0 and in range came back with 0 and PAX_FAIL, as a
\* refused call does
C27_ValidLooksRefused ==
    /\ got # << >> /\ got.op = "I" /\ got.key \in DOMAIN file.meta
    /\ got.indices = <<0, 0>> /\ file.meta[got.key].dims = <<2, 3>>
    /\ got.index = 0 /\ status = PAX_FAIL /\ got.before = PAX_FAIL

\* a call in range returned a flat index that is not 0
C27_FlatIndexReturned ==
    /\ got # << >> /\ got.op = "I" /\ got.key \in DOMAIN file.meta
    /\ got.indices = <<1, 2>> /\ file.meta[got.key].dims = <<2, 3>>
    /\ got.index = 5

\* a step that is a call of getMetaFloat(key, indices)
calledFloat == got' # got /\ got'.op = "getMetaFloat"

\* the call names an element of a stored array
validRead(f, key, indices) ==
    /\ key \in DOMAIN f.meta /\ f.meta[key].type # paxInvalid
    /\ Len(indices) = Len(f.meta[key].dims)
    /\ indicesInRange(f.meta[key], indices)

\* the element the model stores at the indices
element(f, key, indices) ==
    fb(f.meta[key], flat(f.meta[key].dims, indices, 1))

\* C30: getMetaFloat(key, indices) on an element of a stored array returns the
\* element, whatever the calls before it were
C30_AccessorDeterminism ==
    [][(calledFloat /\ validRead(file, got'.key, got'.indices))
         => got'.val = element(file, got'.key, got'.indices)]_vars

\* the part that holds: the read returns the element when the status it finds
\* is PAX_WARN or better, and NaN when it finds PAX_FAIL
C30_ReadByStatus ==
    [][(calledFloat /\ validRead(file, got'.key, got'.indices))
         => got'.val = IF status >= PAX_ERROR + 1
                       THEN element(file, got'.key, got'.indices)
                       ELSE Float_NaN]_vars

\* a read of a[1][2] of the 2 x 3 array found the status PAX_FAIL of an
\* earlier call and returned NaN
C30_ReadAfterFailure ==
    /\ got # << >> /\ got.op = "getMetaFloat" /\ got.key = Key_a
    /\ validRead(file, got.key, got.indices) /\ got.indices = <<1, 2>>
    /\ got.before = PAX_FAIL /\ got.val = Float_NaN

\* the same read returned the element, 8 + 5
C30_ElementRead ==
    /\ got # << >> /\ got.op = "getMetaFloat" /\ got.key = Key_a
    /\ got.indices = <<1, 2>> /\ got.val = floatBytes(5)

(***************************************************************************)
(* import, pass by pass.  The type line is read when import begins; every  *)
(* pass of importHeader's while loop is a step of its own, so that an      *)
(* import that does not come back is a behaviour that stays in the loop;   *)
(* what follows the loop is the step that returns.                         *)
(***************************************************************************)
\* the model import decodes into
newDest == init(file.E, 0, 0, << >>)

\* where the comment lines of the header start
commentStarts(b) ==
    { p \in headerLineStarts(b) : At(b, p) = HASH /\ At(b, p + 1) # HASH }

\* the lengths the caller passes with the pointer: that of the stream, or one
\* that ends one byte into a comment line, with the rest of the stream behind
importLengths(b) == {Len(b)} \cup { p + 1 : p \in commentStarts(b) }

\* the while condition of importHeader, and the faults that end the reader
inLoop(st) == ~st.done /\ st.fault = "none" /\ ~(st.pos - 1 >= st.len)

\* d.import(buf, len) up to the first pass of the loop; a type line that is
\* refused returns at once
BeginImport ==
    /\ pc = "written"
    /\ \E len \in importLengths(outBuf), u \in UninitReads :
         \E tag \in {validatePaxTag(outBuf, 1)} :
             /\ garbage' = u
             /\ IF tag.valid /\ tag.pos <= Len(outBuf) + 1
                THEN /\ rd' = headerStart(tag.pos, len, newDest, u[1], FALSE)
                     /\ pc' = "header"
                     /\ UNCHANGED <<dest, ret, fault>>
                ELSE /\ \E r \in {importOf(outBuf, len, newDest, u[1], u[2])} :
                          dest' = r.file /\ ret' = r.ret /\ fault' = r.fault
                     /\ pc' = "imported"
                     /\ rd' = rd
    /\ UNCHANGED <<file, outBuf, origin, hdr, outBuf2, clean, edit, ck>>
    /\ UNCHANGED <<rasterVars, multiVars, previewVars, arrayVars>>

\* one pass of the loop.  A pass that leaves the reader where it was is not a
\* fault the program notices: the next pass starts from the same state
HeaderPass ==
    /\ pc = "header" /\ inLoop(rd)
    /\ \E s \in {headerStep(outBuf, rd, newDest.metaLocCount[LOC_AFTER_TAG], garbage[2])} :
          rd' = IF s.fault = "hang" THEN [s EXCEPT !.fault = "none"] ELSE s
    /\ UNCHANGED <<file, outBuf, origin, dest, ret, fault, hdr, outBuf2, pc>>
    /\ UNCHANGED <<editVars, rasterVars, multiVars, previewVars, arrayVars, ck>>

\* the loop is left: the checks of importHeader, the copy of the raster, the
\* return
EndImport ==
    /\ pc = "header" /\ ~inLoop(rd)
    /\ \E r \in {importOf(outBuf, rd.len, newDest, garbage[1], garbage[2])} :
          dest' = r.file /\ ret' = r.ret /\ fault' = r.fault
    /\ pc' = "imported"
    /\ UNCHANGED <<file, outBuf, origin, hdr, outBuf2, rd, ck>>
    /\ UNCHANGED <<editVars, rasterVars, multiVars, previewVars, arrayVars>>

\* C28: an import that has entered the header loop leaves it and returns
C28_DecodeTerminates == (pc = "header") ~> (pc = "imported")

\* the claim's reason: every pass moves the reader forward
C28_PassAdvances ==
    [][(pc = "header" /\ pc' = "header" /\ rd' # rd) => rd'.pos > rd.pos]_vars

\* the part that holds: the import of a stream without a line that starts with
\* '@', passed with its own length, returns, and with what import returns
\* when it is taken as one step
plainImport ==
    /\ rd # << >> /\ rd.len = Len(outBuf)
    /\ (origin = "unknown line" => edit[1] # ATSIGN)

C28_PlainImportReturns == (pc = "header" /\ plainImport) ~> (pc = "imported")

C28_PassesAreImport ==
    (pc = "imported" /\ rd # << >>) =>
        LET r == importOf(outBuf, rd.len, newDest, garbage[1], garbage[2])
        IN  /\ dest = r.file /\ ret = r.ret /\ fault = r.fault
            /\ ~inLoop(rd)

\* a pass over a line that starts with '@' has stored the bad pair and left the
\* reader at the line: the next pass is the same pass
C28_AtLineLoops ==
    /\ pc = "header" /\ inLoop(rd) /\ << >> \in DOMAIN rd.meta
    /\ At(outBuf, rd.pos) = ATSIGN
    /\ headerStep(outBuf, rd, 0, garbage[2]).pos = rd.pos

\* the same for a comment line whose line feed is not below the length passed
C28_CommentLoops ==
    /\ pc = "header" /\ inLoop(rd) /\ << >> \in DOMAIN rd.meta
    /\ At(outBuf, rd.pos) = HASH /\ strchrLF(outBuf, rd.pos) - 1 >= rd.len
    /\ headerStep(outBuf, rd, 0, garbage[2]).pos = rd.pos

(***************************************************************************)
(* preview(fileName): the header of a file that is read chunk by chunk.    *)
(***************************************************************************)
\* CHUNK_LEN, 16384 in the source, scaled to the streams of the model
ChunkLen == 64

\* the number of descriptors the process may hold open at a time
MaxFds == 3

\* readFileChunk with fds descriptors open: [null, chunk, fds].  pax_open
\* fails when no descriptor is left; a chunk that starts beyond the end of
\* the file is returned empty, without pax_close
readFileChunk(content, nChunk, fds) ==
    IF fds >= MaxFds
    THEN [null |-> TRUE, chunk |-> << >>, fds |-> fds]
    ELSE LET fileLength == Len(content)
             start == nChunk * ChunkLen
             length == IF start + ChunkLen > fileLength THEN fileLength - start ELSE ChunkLen
         IN  IF start > fileLength
             THEN [null |-> FALSE, chunk |-> << >>, fds |-> fds + 1]
             ELSE [null |-> FALSE, chunk |-> SubSeq(content, start + 1, start + length),
                   fds |-> fds]

\* the caller previews the file that holds the stream
BeginPreview ==
    /\ pc = "written" /\ pre = << >>
    /\ ck' = [nChunk |-> 0, fileBuf |-> << >>, fds |-> 0]
    /\ pc' = "chunks"
    /\ UNCHANGED <<file, outBuf, origin, dest, ret, fault, hdr, outBuf2, rd>>
    /\ UNCHANGED <<editVars, rasterVars, multiVars, previewVars, arrayVars>>

\* one pass of the loop of preview(fileName): the next chunk is read and
\* appended, and the whole of what was read is previewed into this object
ChunkPass ==
    /\ pc = "chunks"
    /\ \E u \in UninitReads : \E c \in {readFileChunk(outBuf, ck.nChunk, ck.fds)} :
          IF c.null
          THEN /\ ret' = PAX_FAIL
               /\ pc' = "previewed"
               /\ UNCHANGED <<dest, fault, ck>>
          ELSE \E r \in {preview(ck.fileBuf \o c.chunk, dest, u[1], u[2])} :
                  /\ dest' = r.file
                  /\ fault' = r.fault
                  /\ ret' = IF r.fault = "none" /\ r.ret \in {PAX_FAIL, PAX_OK} THEN r.ret ELSE ret
                  /\ pc' = IF r.fault = "hang" THEN "hung"
                           ELSE IF r.fault # "none" \/ r.ret \in {PAX_FAIL, PAX_OK} THEN "previewed"
                           ELSE "chunks"
                  /\ ck' = [nChunk |-> IF r.fault = "none" /\ r.ret \notin {PAX_FAIL, PAX_OK}
                                        THEN ck.nChunk + 1 ELSE ck.nChunk,
                            fileBuf |-> ck.fileBuf \o c.chunk,
                            fds |-> c.fds]
    /\ UNCHANGED <<file, outBuf, origin, hdr, outBuf2, rd>>
    /\ UNCHANGED <<editVars, rasterVars, multiVars, previewVars, arrayVars>>

\* the loop is about to read a chunk that starts beyond the end of the file
pastEnd == pc = "chunks" /\ ck.nChunk * ChunkLen > Len(outBuf)

\* C29: preview(fileName) returns for every finite file: once all the chunks
\* of the file have been read and the header is still not accepted, it
\* returns an error and reads no chunk from beyond the end of the file
C29_ChunkedPreviewTerminates ==
    /\ [](~pastEnd)
    /\ (pc = "chunks") ~> (pc = "previewed")

\* the half of C29 that holds where the process may hold MaxFds descriptors
\* open: preview(fileName) returns
C29_PreviewReturns == (pc = "chunks") ~> (pc = "previewed")

\* a preview that has read the whole file fails only when readFileChunk
\* can open the file no more, and succeeds only on a stream as written
C29_FailsWhenDescriptorsRunOut ==
    (pc = "previewed" /\ ck # << >>) =>
        /\ fault = "none"
        /\ ret = PAX_FAIL => ck.fds = MaxFds /\ origin # "written"
        /\ ret = PAX_OK => ck.fds = 0 /\ origin = "written"

\* every chunk read from beyond the end of the file leaves a descriptor open
C29_EmptyChunkLeaks ==
    [][(pastEnd /\ pc' = "chunks") => ck'.fds = ck.fds + 1 /\ ck'.fileBuf = ck.fileBuf]_vars

\* the file with the wrong BYTES_PER_VALUE was read whole, then empty chunks
\* were read until no descriptor was left, and preview returned PAX_FAIL
C29_ReadOnUntilRefused ==
    /\ pc = "previewed" /\ origin = "wrong bpv"
    /\ ck # << >> /\ ck.fileBuf = outBuf
    /\ ck.nChunk * ChunkLen > Len(outBuf) + ChunkLen
    /\ ck.fds = MaxFds
    /\ ret = PAX_FAIL

\* the same for a file without its DATA_LENGTH line
C29_NoDataLengthReadOn ==
    /\ pc = "previewed" /\ origin = "missing tag" /\ edit = DATALEN_TAG
    /\ ck # << >> /\ ck.fileBuf = outBuf
    /\ ck.fds = MaxFds
    /\ ret = PAX_FAIL

(***************************************************************************)
(* The specifications of the later sections.                               *)
(***************************************************************************)
NextEdit ==
    \/ AddMetaValFloat
    \/ AddMetaValDouble
    \/ AddMetaValInt32
    \/ AddComment
    \/ WriteToBuffer
    \/ InjectUnknown
    \/ InjectBadMeta
    \/ InjectLongText
    \/ InjectCase
    \/ DuplicateTag
    \/ RemoveTag
    \/ ReplaceTypeLine
    \/ ImportEdited

SpecEdit == Init /\ [][NextEdit]_vars

NextRaster ==
    \/ CallValXY
    \/ CallValRC

SpecRaster == InitRaster /\ [][NextRaster]_vars

NextBuild ==
    \/ AddMetaValFloat
    \/ AddMetaValDouble
    \/ AddMetaValInt32
    \/ AddComment
    \/ WriteToBuffer

SpecBuild == Init /\ [][NextBuild]_vars

NextMulti ==
    \/ WriteMultiple
    \/ ImportMultiple

SpecMulti == InitMulti /\ [][NextMulti]_vars

NextPreview ==
    \/ WriteToBuffer
    \/ WrongBPV
    \/ Preview

SpecPreview == InitPreview /\ [][NextPreview]_vars

NextModify ==
    \/ AddMetaValFloat
    \/ AddMetaValDouble
    \/ AddMetaValInt32
    \/ AddComment
    \/ WriteToBuffer
    \/ DuplicateMetaLine
    \/ ImportBuffer
    \/ ReAddMetaValInt32
    \/ ReAddMetaValDouble
    \/ ReAddComment

SpecModify == Init /\ [][NextModify]_vars

NextComment ==
    \/ AddComment
    \/ AddCommentMeta
    \/ AddMetaOfComment
    \/ WriteToBuffer
    \/ ImportBuffer

SpecComment == Init /\ [][NextComment]_vars

NextLength ==
    \/ Craft
    \/ ImportFile
    \/ ImportBuffer

SpecLength == InitLength /\ [][NextLength]_vars

NextArray ==
    \/ AddArrayMeta
    \/ GetMetaArrayIndex
    \/ GetMetaFloatAt
    \/ SetStatusOk

SpecArray == InitArray /\ [][NextArray]_vars

NextHeader ==
    \/ AddComment
    \/ WriteToBuffer
    \/ InjectUnknown
    \/ BeginImport
    \/ HeaderPass
    \/ EndImport

\* a thread that is inside import runs on: a pass that can be made is made,
\* and a loop that is left returns
SpecHeader ==
    Init /\ [][NextHeader]_vars /\ WF_vars(HeaderPass) /\ WF_vars(EndImport)

NextChunks ==
    \/ WriteToBuffer
    \/ WrongBPV
    \/ RemoveTag
    \/ BeginPreview
    \/ ChunkPass

\* a thread that is inside preview(fileName) runs on
SpecChunks == InitPreview /\ [][NextChunks]_vars /\ WF_vars(ChunkPass)

=============================================================================
